---- MODULE Spec2Model ----
(***************************************************************************)
(* A model of src/key.cpp: the CKey wrapper around an OpenSSL EC_KEY, the  *)
(* ECDSA sign / verify / public-key-recovery paths and the DER signature   *)
(* normalisation.                                                          *)
(*                                                                         *)
(* The group arithmetic is done on a Koblitz curve y^2 = x^3 + 7 of prime  *)
(* order over a prime field, with the order below the field prime and      *)
(* p = 3 (mod 4), as secp256k1 has; the field is small enough for TLC's    *)
(* integers.  Containers keep the width the code gives them: a secret is   *)
(* 32 bytes, a field element is serialised on 32 bytes, a compact          *)
(* signature has 65 bytes.                                                 *)
(***************************************************************************)
EXTENDS Integers, Sequences, FiniteSets, TLC

\* ------------------------------------------------------------------------
\* The curve (EC_KEY_new_by_curve_name(NID_secp256k1), scaled down)
\* ------------------------------------------------------------------------

\* the field prime p
FieldP == 163

\* the order n of the generator (prime, cofactor 1)
OrderN == 139

\* the curve coefficient b of y^2 = x^3 + b
CurveB == 7

\* EC_GROUP_get_degree: the bit width of the container of a field element
GroupDegree == 256

\* sizeof(uint256): the number of bytes of a hash
HashBytes == 32

\* the serialised width of a field element and of a secret, in bytes
FieldBytes == 32

\* a point of the curve: the point at infinity, or affine coordinates
Infinity == [inf |-> TRUE, x |-> 0, y |-> 0]

Affine(px, py) == [inf |-> FALSE, x |-> px, y |-> py]

\* the absent public key of a fresh EC_KEY (a NULL EC_POINT*)
NoPoint == [inf |-> FALSE, x |-> -1, y |-> -1]

\* the absent private key of a fresh EC_KEY (a NULL BIGNUM*)
NoBN == -1

\* a mod m for any integer a (BN_nnmod)
Mod(a, m) == ((a % m) + m) % m

\* modular inverses in the field, tabulated once
InvPTable == [a \in 1..(FieldP - 1) |-> CHOOSE b \in 1..(FieldP - 1) : (a * b) % FieldP = 1]

InvP(a) == InvPTable[Mod(a, FieldP)]

\* modular inverses modulo the group order, tabulated once
InvNTable == [a \in 1..(OrderN - 1) |-> CHOOSE b \in 1..(OrderN - 1) : (a * b) % OrderN = 1]

\* BN_mod_inverse(rr, a, order): fails (returns NULL) when a has no inverse
HasInvN(a) == Mod(a, OrderN) # 0

InvN(a) == InvNTable[Mod(a, OrderN)]

OnCurve(px, py) == (py * py) % FieldP = (px * px * px + CurveB) % FieldP

\* the affine points, for the generator and for decompression
CurvePoints == {q \in (0..(FieldP - 1)) \X (0..(FieldP - 1)) : OnCurve(q[1], q[2])}

\* EC_POINT_add / EC_POINT_dbl in affine coordinates
PointAdd(P, Q) ==
    IF P.inf THEN Q
    ELSE IF Q.inf THEN P
    ELSE IF P.x = Q.x /\ (P.y + Q.y) % FieldP = 0 THEN Infinity
    ELSE LET lam == IF P.x = Q.x
                    THEN (3 * P.x * P.x * InvP(2 * P.y)) % FieldP
                    ELSE (Mod(Q.y - P.y, FieldP) * InvP(Q.x - P.x)) % FieldP
             rx == Mod(lam * lam - P.x - Q.x, FieldP)
             ry == Mod(lam * Mod(P.x - rx, FieldP) - P.y, FieldP)
         IN Affine(rx, ry)

\* k * P by double-and-add, k >= 0
RECURSIVE PointMul(_, _)
PointMul(k, P) ==
    IF k = 0 THEN Infinity
    ELSE LET half == PointMul(k \div 2, P)
             dbl == PointAdd(half, half)
         IN IF k % 2 = 1 THEN PointAdd(dbl, P) ELSE dbl

\* the generator G: the affine point of least (x, y) (any point generates a
\* group of prime order)
GeneratorXY == CHOOSE q \in CurvePoints :
                  \A o \in CurvePoints : q[1] < o[1] \/ (q[1] = o[1] /\ q[2] <= o[2])

Generator == Affine(GeneratorXY[1], GeneratorXY[2])

\* k * G, tabulated once for k in 0 .. n-1
GMulTable == [k \in 0..(OrderN - 1) |-> PointMul(k, Generator)]

\* EC_POINT_mul(group, r, k, NULL, NULL, ctx): k * G, the scalar taken mod n
GMul(k) == GMulTable[Mod(k, OrderN)]

\* EC_POINT_mul(group, r, g, P, m, ctx): g * G + m * P
MulAdd(g, P, m) == PointAdd(GMul(g), PointMul(Mod(m, OrderN), P))

\* ------------------------------------------------------------------------
\* Big numbers and byte strings
\* ------------------------------------------------------------------------

\* k zero bytes (none for k <= 0), built by halves
RECURSIVE Zeros(_)
Zeros(k) ==
    IF k <= 0 THEN <<>>
    ELSE IF k = 1 THEN <<0>>
    ELSE LET half == Zeros(k \div 2)
         IN half \o half \o (IF k % 2 = 1 THEN <<0>> ELSE <<>>)

\* BN_bin2bn: the big-endian value of a byte string
RECURSIVE BinToBN(_)
BinToBN(b) ==
    IF Len(b) = 0 THEN 0
    ELSE BinToBN(SubSeq(b, 1, Len(b) - 1)) * 256 + b[Len(b)]

\* BN_bn2bin: the minimal big-endian bytes of v >= 0 (none for zero)
RECURSIVE BNToBin(_)
BNToBin(v) == IF v = 0 THEN <<>> ELSE BNToBin(v \div 256) \o <<v % 256>>

\* BN_num_bits
RECURSIVE NumBits(_)
NumBits(v) == IF v = 0 THEN 0 ELSE 1 + NumBits(v \div 2)

\* BN_num_bytes
NumBytes(v) == (NumBits(v) + 7) \div 8

\* a write that lands one byte early
WriteAtOneEarly(buf, off, bytes) ==
    [i \in 1..Len(buf) |->
        IF i > off - 1 /\ i <= off - 1 + Len(bytes) THEN bytes[i - off + 1] ELSE buf[i]]

\* writing bytes into buf at the 0-based offset off (BN_bn2bin(bn, &buf[off]))
WriteAt(buf, off, bytes) ==
    [i \in 1..Len(buf) |->
        IF i > off /\ i <= off + Len(bytes) THEN bytes[i - off] ELSE buf[i]]

\* a field element on FieldBytes bytes, zero-padded on the left
FieldElem(v) == Zeros(FieldBytes - NumBytes(v)) \o BNToBin(v)

\* ------------------------------------------------------------------------
\* Points <-> octets (EC_POINT_point2oct, EC_POINT_oct2point)
\* ------------------------------------------------------------------------

\* POINT_CONVERSION_COMPRESSED
ConvCompressed == 2

\* POINT_CONVERSION_UNCOMPRESSED
ConvUncompressed == 4

\* POINT_CONVERSION_HYBRID
ConvHybrid == 6

\* EC_POINT_point2oct
PointToOct(P, form) ==
    IF P.inf THEN <<0>>
    ELSE IF form = ConvCompressed THEN <<form + (P.y % 2)>> \o FieldElem(P.x)
    ELSE IF form = ConvHybrid THEN <<form + (P.y % 2)>> \o FieldElem(P.x) \o FieldElem(P.y)
    ELSE <<form>> \o FieldElem(P.x) \o FieldElem(P.y)

\* EC_POINT_set_compressed_coordinates_GFp: the point of abscissa px whose
\* ordinate has parity ybit, when there is one
Decompress(px, ybit) ==
    LET ys == {py \in 0..(FieldP - 1) : OnCurve(px, py) /\ py % 2 = ybit}
    IN IF px < 0 \/ px >= FieldP \/ ys = {}
       THEN [ok |-> FALSE, pt |-> NoPoint]
       ELSE [ok |-> TRUE, pt |-> Affine(px, CHOOSE py \in ys : TRUE)]

\* a failure that leaves the point it was to fill as it was
OctFail == [ok |-> FALSE, pt |-> NoPoint, form |-> 0]

\* EC_POINT_oct2point, with the conversion form EC_KEY_oct2key records.
\* Coordinates that are not on the curve are stored in the point before the
\* test that turns them away: pt holds them on that failure.
OctToPoint(b) ==
    IF Len(b) = 0 THEN OctFail
    ELSE LET ybit == b[1] % 2
             form == b[1] - ybit
         IN IF form \notin {0, ConvCompressed, ConvUncompressed, ConvHybrid} THEN OctFail
            ELSE IF (form = 0 \/ form = ConvUncompressed) /\ ybit = 1 THEN OctFail
            ELSE IF form = 0
                 THEN IF Len(b) = 1 THEN [ok |-> TRUE, pt |-> Infinity, form |-> 0] ELSE OctFail
            ELSE IF Len(b) # (IF form = ConvCompressed THEN 1 + FieldBytes ELSE 1 + 2 * FieldBytes)
                 THEN OctFail
            ELSE LET px == BinToBN(SubSeq(b, 2, 1 + FieldBytes))
                 IN IF px >= FieldP THEN OctFail
                    ELSE IF form = ConvCompressed
                         THEN LET d == Decompress(px, ybit)
                              IN IF d.ok THEN [ok |-> TRUE, pt |-> d.pt, form |-> form] ELSE OctFail
                    ELSE LET py == BinToBN(SubSeq(b, 2 + FieldBytes, 1 + 2 * FieldBytes))
                         IN IF py >= FieldP THEN OctFail
                            ELSE IF form = ConvHybrid /\ py % 2 # ybit THEN OctFail
                            ELSE IF ~OnCurve(px, py)
                                 THEN [ok |-> FALSE, pt |-> Affine(px, py), form |-> 0]
                            ELSE [ok |-> TRUE, pt |-> Affine(px, py), form |-> form]

\* ------------------------------------------------------------------------
\* ECDSA over the curve (ECDSA_do_sign, ECDSA_do_verify)
\* ------------------------------------------------------------------------

\* the integer e a hash denotes: BN_bin2bn over its 32 bytes, shifted when
\* the hash is wider than the group (it is not: 8 * 32 = 256)
HashToE(h) ==
    IF 8 * HashBytes > GroupDegree
    THEN h \div (2 ^ (8 - (GroupDegree % 8)))
    ELSE h

\* the abscissa of k * G reduced modulo the order: the r of a signature
SigR(k) == GMul(k).x % OrderN

\* s = k^-1 * (e + r * d) mod n
SigS(k, e, d) == (InvN(k) * Mod(HashToE(e) + SigR(k) * Mod(d, OrderN), OrderN)) % OrderN

\* the nonces ECDSA_do_sign can settle on for (d, e): it draws k in [1, n-1]
\* and draws again while r or s comes out zero
SignNonces(d, e) == {k \in 1..(OrderN - 1) : SigR(k) # 0 /\ SigS(k, e, d) # 0}

\* ECDSA_do_verify on integers r, s: 1 good, 0 bad signature, -1 error (no
\* public key, or u1*G + u2*Q the point at infinity, which has no affine
\* coordinates)
DoVerify(pkey, e, r, s) ==
    IF pkey.pub = NoPoint THEN -1
    ELSE IF r < 1 \/ r >= OrderN \/ s < 1 \/ s >= OrderN THEN 0
    ELSE LET w == InvN(s)
             u1 == (HashToE(e) * w) % OrderN
             u2 == (r * w) % OrderN
             X == MulAdd(u1, pkey.pub, u2)
         IN IF X.inf THEN -1
            ELSE IF X.x % OrderN = r THEN 1 ELSE 0

\* ------------------------------------------------------------------------
\* DER of SEQUENCE { INTEGER r, INTEGER s } (i2d_ECDSA_SIG, d2i_ECDSA_SIG)
\* ------------------------------------------------------------------------

\* content octets that leave out the zero byte keeping the sign bit clear
DerIntContentNoPad(mag) == IF Len(mag) = 0 THEN <<0>> ELSE mag

\* the content octets of a non-negative INTEGER given by its magnitude bytes
DerIntContent(mag) ==
    IF Len(mag) = 0 THEN <<0>>
    ELSE IF mag[1] >= 128 THEN <<0>> \o mag
    ELSE mag

\* a DER length field: short form below 128, else the fewest length bytes
DerLength(n) == IF n < 128 THEN <<n>> ELSE <<128 + NumBytes(n)>> \o BNToBin(n)

DerInteger(mag) == <<2>> \o DerLength(Len(DerIntContent(mag))) \o DerIntContent(mag)

\* i2d_ECDSA_SIG of magnitudes r, s
DerEncodeSig(rmag, smag) ==
    LET body == DerInteger(rmag) \o DerInteger(smag)
    IN <<48>> \o DerLength(Len(body)) \o body

\* 0x7fffffff
MaxLength31 == 2147483647

\* a byte string without its leading zero bytes
RECURSIVE StripZeros(_)
StripZeros(b) ==
    IF Len(b) > 0 /\ b[1] = 0 THEN StripZeros(SubSeq(b, 2, Len(b))) ELSE b

\* a definite length field at the 1-based position pos, as d2i_ECDSA_SIG
\* reads it: the short form, 0x81 and one length byte, or 0x82 and two;
\* every other first byte is turned away
DerReadLen(b, pos) ==
    LET bad == [ok |-> FALSE, len |-> 0, next |-> pos]
    IN IF pos > Len(b) THEN bad
       ELSE IF b[pos] < 128 THEN [ok |-> TRUE, len |-> b[pos], next |-> pos + 1]
       ELSE IF b[pos] = 129
            THEN IF pos + 1 > Len(b) THEN bad
                 ELSE [ok |-> TRUE, len |-> b[pos + 1], next |-> pos + 2]
       ELSE IF b[pos] = 130
            THEN IF pos + 2 > Len(b) THEN bad
                 ELSE [ok |-> TRUE, len |-> 256 * b[pos + 1] + b[pos + 2],
                       next |-> pos + 3]
       ELSE bad

\* a strict non-negative minimal INTEGER at pos, ending at or before lim
DerReadInt(b, pos, lim) ==
    LET bad == [ok |-> FALSE, mag |-> <<>>, next |-> pos]
    IN IF pos > lim \/ b[pos] # 2 THEN bad
       ELSE LET l == DerReadLen(SubSeq(b, 1, lim), pos + 1)
            IN IF ~l.ok \/ l.len < 1 \/ l.next + l.len - 1 > lim THEN bad
               ELSE LET c == SubSeq(b, l.next, l.next + l.len - 1)
                    IN IF c[1] >= 128 THEN bad
                       ELSE IF Len(c) > 1 /\ c[1] = 0 /\ c[2] < 128 THEN bad
                       ELSE [ok |-> TRUE,
                             mag |-> IF c[1] = 0 THEN SubSeq(c, 2, Len(c)) ELSE c,
                             next |-> l.next + l.len]

\* d2i_ECDSA_SIG: the magnitudes of r and s, or failure; bytes after the
\* SEQUENCE are left unread
DerDecodeSig(b) ==
    LET bad == [ok |-> FALSE, r |-> <<>>, s |-> <<>>]
    IN IF Len(b) < 1 \/ b[1] # 48 THEN bad
       ELSE LET l == DerReadLen(b, 2)
            IN IF ~l.ok \/ l.next + l.len - 1 > Len(b) THEN bad
               ELSE LET lim == l.next + l.len - 1
                        ri == DerReadInt(b, l.next, lim)
                    IN IF ~ri.ok THEN bad
                       ELSE LET si == DerReadInt(b, ri.next, lim)
                            IN IF ~si.ok \/ si.next # lim + 1 THEN bad
                               ELSE [ok |-> TRUE, r |-> ri.mag, s |-> si.mag]

\* the value of a magnitude (no leading zero byte), or the order itself for
\* one with more bytes than the order has: ECDSA_do_verify only compares r
\* and s with zero and the order, and such a value is above the order
MagValue(mag) == IF Len(mag) > NumBytes(OrderN) THEN OrderN ELSE BinToBN(mag)

\* ECDSA_verify(0, hash, der, derlen, pkey): decodes, insists that the bytes
\* are the encoding of what it decoded, then runs ECDSA_do_verify
EcdsaVerify(pkey, e, der) ==
    LET d == DerDecodeSig(der)
    IN IF ~d.ok THEN -1
       ELSE IF DerEncodeSig(d.r, d.s) # der THEN -1
       ELSE DoVerify(pkey, e, MagValue(d.r), MagValue(d.s))

\* ------------------------------------------------------------------------
\* ECDSA_SIG_recover_key_GFp (SEC1 4.1.6)
\* ------------------------------------------------------------------------

\* a recovery that stores R in the key before the inverse of r is taken
RecoverStoresEarly(eckey, r, s, e, recid, check) ==
    LET x == OrderN * (recid \div 2) + r
        R == Decompress(x, recid % 2)
    IN IF x >= FieldP \/ ~R.ok THEN [ret |-> 0, pkey |-> eckey]
       ELSE IF ~HasInvN(r) THEN [ret |-> -1, pkey |-> [eckey EXCEPT !.pub = R.pt]]
       ELSE [ret |-> 1,
             pkey |-> [eckey EXCEPT !.pub =
                          MulAdd((Mod(0 - HashToE(e), OrderN) * InvN(r)) % OrderN, R.pt,
                                 (Mod(s, OrderN) * InvN(r)) % OrderN)]]

\* returns ret (1 on success) and the EC_KEY as the call leaves it
ECDSA_SIG_recover_key_GFp(eckey, r, s, e, recid, check) ==
    LET i == recid \div 2
        x == OrderN * i + r
        R == Decompress(x, recid % 2)
        stop(code) == [ret |-> code, pkey |-> eckey]
    IN IF x >= FieldP THEN stop(0)
       ELSE IF ~R.ok THEN stop(0)
       ELSE IF check /\ ~PointMul(OrderN, R.pt).inf THEN stop(0)
       ELSE IF ~HasInvN(r) THEN stop(-1)
       ELSE LET en == Mod(0 - HashToE(e), OrderN)
                rr == InvN(r)
                sor == (Mod(s, OrderN) * rr) % OrderN
                eor == (en * rr) % OrderN
                Q == MulAdd(eor, R.pt, sor)
            IN [ret |-> 1, pkey |-> [eckey EXCEPT !.pub = Q]]

\* ------------------------------------------------------------------------
\* ParseLength, EncodeLength, NormalizeSignature
\* ------------------------------------------------------------------------

\* ParseLength on an empty range: false, with neither output written (they
\* read 0 here)
ParseFail == [ok |-> FALSE, len |-> 0, size |-> 0]

\* the loop of ParseLength: it is the 1-based index the iterator stands on,
\* i the loop counter, acc the value of nLength.  A failure leaves the first
\* byte in nLengthRet and 1 + i in nLengthSizeRet.  (acc << 8) | b exceeds
\* 0x7fffffff exactly when acc exceeds (0x7fffffff - b) div 256, which is
\* how the test is written here to stay within machine integers.
RECURSIVE ParseLengthLoop(_, _, _, _, _)
ParseLengthLoop(v, it, i, nLengthBytes, acc) ==
    LET stop == [ok |-> FALSE, len |-> v[it - i], size |-> 1 + i]
    IN IF i >= nLengthBytes THEN [ok |-> TRUE, len |-> acc, size |-> 1 + nLengthBytes]
       ELSE IF it + 1 > Len(v) THEN stop
       ELSE IF acc > (MaxLength31 - v[it + 1]) \div 256 THEN stop
       ELSE ParseLengthLoop(v, it + 1, i + 1, nLengthBytes, acc * 256 + v[it + 1])

\* a ParseLength that turns away more than 4 length bytes
ParseLengthUpTo4(v, pos) ==
    IF pos > Len(v) THEN ParseFail
    ELSE IF v[pos] < 128 THEN [ok |-> TRUE, len |-> v[pos], size |-> 1]
    ELSE IF v[pos] % 128 > 4 THEN [ok |-> FALSE, len |-> v[pos], size |-> 1]
    ELSE ParseLengthLoop(v, pos, 0, v[pos] % 128, 0)

\* ParseLength(begin, end, nLengthRet, nLengthSizeRet), begin the 1-based
\* pos: ok is the value returned, len and size what nLengthRet and
\* nLengthSizeRet hold afterwards.  A parse that fails after the first byte
\* leaves that byte in nLengthRet and 1 plus the length bytes it got
\* through in nLengthSizeRet.
ParseLength(v, pos) ==
    IF pos > Len(v) THEN ParseFail
    ELSE IF v[pos] < 128 THEN [ok |-> TRUE, len |-> v[pos], size |-> 1]
    ELSE IF v[pos] % 128 > 8 THEN [ok |-> FALSE, len |-> v[pos], size |-> 1]
    ELSE ParseLengthLoop(v, pos, 0, v[pos] % 128, 0)

EncodeLength(nLength) ==
    IF nLength < 128 THEN <<nLength>>
    ELSE <<132, (nLength \div 16777216) % 256, (nLength \div 65536) % 256,
           (nLength \div 256) % 256, nLength % 256>>

\* the values a byte can have
Byte == 0..255

\* what the memory behind a vector can hold on its first n bytes
Heaps(n) == [1..n -> Byte]

\* the j-th byte behind the end of the vector; heap lists the bytes there
\* (a byte heap does not list is of no account to the caller and reads 0)
HeapByte(heap, j) == IF j <= Len(heap) THEN heap[j] ELSE 0

\* n bytes from the 0-based offset start0; a read past the end of v yields
\* the bytes that lie behind v
ReadRange(v, start0, n, heap) ==
    [i \in 1..n |-> IF start0 + i <= Len(v) THEN v[start0 + i]
                    ELSE HeapByte(heap, start0 + i - Len(v))]

\* how many bytes past the end of v the range of n bytes from start0 reads
PastEnd(v, start0, n) == IF start0 + n > Len(v) THEN start0 + n - Len(v) ELSE 0

\* one run of NormalizeSignature with heap behind the vector: ret, the
\* vector afterwards, whether a read went past the end, and by how many
\* bytes
NormalizeRun(v, heap) ==
    LET no(o) == [ret |-> "false", sig |-> v, oob |-> o > 0, over |-> o]
    IN IF Len(v) < 2 \/ v[1] # 48 THEN no(0)
       ELSE LET t == ParseLength(v, 2)
            IN IF ~t.ok THEN no(0)
               ELSE LET nRStart == 1 + t.size
                    IN IF Len(v) < nRStart + 2 \/ v[nRStart + 1] # 2 THEN no(0)
                       ELSE LET rl == ParseLength(v, nRStart + 2)
                            IN IF ~rl.ok THEN no(0)
                               ELSE LET nRDataStart == nRStart + 1 + rl.size
                                        R == ReadRange(v, nRDataStart, rl.len, heap)
                                        rover == PastEnd(v, nRDataStart, rl.len)
                                        nSStart == nRStart + 1 + rl.size + rl.len
                                    IN IF Len(v) < nSStart + 2 THEN no(rover)
                                       ELSE IF v[nSStart + 1] # 2 THEN no(rover)
                                       ELSE LET sl == ParseLength(v, nSStart + 2)
                                            IN IF ~sl.ok THEN no(rover)
                                               ELSE LET nSDataStart == nSStart + 1 + sl.size
                                                        S == ReadRange(v, nSDataStart, sl.len, heap)
                                                        sover == PastEnd(v, nSDataStart, sl.len)
                                                        vchRLength == EncodeLength(Len(R))
                                                        vchSLength == EncodeLength(Len(S))
                                                        nTotalLength == 1 + Len(vchRLength) + Len(R)
                                                                        + 1 + Len(vchSLength) + Len(S)
                                                    IN [ret |-> "true",
                                                        sig |-> <<48>> \o EncodeLength(nTotalLength)
                                                                \o <<2>> \o vchRLength \o R
                                                                \o <<2>> \o vchSLength \o S,
                                                        oob |-> sover > 0,
                                                        over |-> sover]

\* how many bytes past the end of v NormalizeSignature reads
OverRead(v) == NormalizeRun(v, <<>>).over

\* NormalizeSignature(vchSig): the outcomes the call can have.  Building R
\* or S from a range that runs past the end of the vector is undefined: the
\* call faults, or goes on with whatever the bytes behind the vector hold.
\* A run that returns false leaves the vector alone, whatever it read.
NormalizeSignature(v) ==
    LET n == NormalizeRun(v, <<>>)
    IN IF n.over = 0 THEN {n}
       ELSE {[ret |-> "fault", sig |-> v, oob |-> TRUE, over |-> n.over]}
            \cup (IF n.ret = "false" THEN {n}
                  ELSE {NormalizeRun(v, heap) : heap \in Heaps(n.over)})

\* ------------------------------------------------------------------------
\* CKey: { EC_KEY* pkey; bool fSet; bool fCompressedPubKey; }
\* fCompressedPubKey is kept as the byte the bool is stored in: 0 for false
\* and 1 for true, and any byte where the member was never written.
\* ------------------------------------------------------------------------

\* EC_KEY_new_by_curve_name(NID_secp256k1): no key material, uncompressed
FreshECKey == [priv |-> NoBN, pub |-> NoPoint, conv |-> ConvUncompressed]

\* CKey::CKey(): pkey = NULL; Reset()
NewCKey == [pkey |-> FreshECKey, fSet |-> FALSE, fCompressedPubKey |-> 0]

\* a Reset that leaves fCompressedPubKey as it is
ResetKeepsFlag(k) == [k EXCEPT !.pkey = FreshECKey, !.fSet = FALSE]

\* CKey::Reset
Reset(k) == [pkey |-> FreshECKey, fSet |-> FALSE, fCompressedPubKey |-> 0]

\* CKey::SetCompressedPubKey(bool fCompressed = true)
SetCompressedPubKey(k, fCompressed) ==
    [k EXCEPT !.pkey.conv = IF fCompressed THEN ConvCompressed ELSE ConvUncompressed,
              !.fCompressedPubKey = 1]

\* EC_KEY_copy(dest, src): the public point and the private scalar are
\* copied when src has them and left as they are in dest when it has not;
\* the conversion form is copied
EC_KEY_copy(dest, src) ==
    [priv |-> IF src.priv # NoBN THEN src.priv ELSE dest.priv,
     pub |-> IF src.pub # NoPoint THEN src.pub ELSE dest.pub,
     conv |-> src.conv]

\* CKey::CKey(const CKey& b): pkey = EC_KEY_dup(b.pkey), fSet = b.fSet;
\* fCompressedPubKey is not initialised, so it holds whatever byte the
\* storage of the new object held
CopyConstruct(b) ==
    {[pkey |-> EC_KEY_copy(FreshECKey, b.pkey), fSet |-> b.fSet, fCompressedPubKey |-> f]
        : f \in Byte}

\* CKey::operator=(const CKey& b): EC_KEY_copy(pkey, b.pkey), fSet = b.fSet
Assign(k, b) == [k EXCEPT !.pkey = EC_KEY_copy(k.pkey, b.pkey), !.fSet = b.fSet]

IsNull(k) == ~k.fSet

\* CKey::IsCompressed: return fCompressedPubKey, the byte as it is stored
IsCompressed(k) == k.fCompressedPubKey

\* EC_KEY_regenerate_key: the public point of priv_key, both stored as given
EC_KEY_regenerate_key(eckey, priv_key) ==
    [eckey EXCEPT !.priv = priv_key, !.pub = GMul(priv_key)]

\* CKey::MakeNewKey, d the scalar EC_KEY_generate_key draws in [1, n-1]
MakeNewKey(k, d, fCompressed) ==
    LET gen == [k EXCEPT !.pkey.priv = d, !.pkey.pub = GMul(d)]
        cmp == IF fCompressed THEN SetCompressedPubKey(gen, TRUE) ELSE gen
    IN [cmp EXCEPT !.fSet = TRUE]

\* the test of SetSecret for compressing: fCompressed || fCompressedPubKey
SecretCompresses(fCompressed, fCompressedPubKey) == fCompressed \/ fCompressedPubKey # 0

\* CKey::SetSecret: ret is "true" or "throw", key the object afterwards
SetSecret(k, vchSecret, fCompressed) ==
    LET fresh == [k EXCEPT !.pkey = FreshECKey]
    IN IF Len(vchSecret) # 32 THEN [ret |-> "throw", key |-> fresh]
       ELSE LET bn == BinToBN(vchSecret)
                regen == [fresh EXCEPT !.pkey = EC_KEY_regenerate_key(fresh.pkey, bn),
                                       !.fSet = TRUE]
            IN [ret |-> "true",
                key |-> IF SecretCompresses(fCompressed, regen.fCompressedPubKey)
                        THEN SetCompressedPubKey(regen, TRUE)
                        ELSE regen]

\* CKey::GetSecret: the outcomes of the call.  With no private key,
\* BN_num_bytes runs on a null pointer before the test for it: the call
\* faults there, or reaches the test and throws.
GetSecret(k) ==
    IF k.pkey.priv = NoBN
    THEN {[ret |-> "fault", secret |-> <<>>, fCompressed |-> 0],
          [ret |-> "throw", secret |-> <<>>, fCompressed |-> 0]}
    ELSE LET bn == k.pkey.priv
             nBytes == NumBytes(bn)
         IN {[ret |-> "ok",
              secret |-> WriteAt(Zeros(32), 32 - nBytes, BNToBin(bn)),
              fCompressed |-> k.fCompressedPubKey]}

\* CKey::GetPubKey: i2o_ECPublicKey gives 0 for a key with no public point,
\* and for a conversion form that is none of the three (the form recorded
\* from the one-byte encoding of the point at infinity)
GetPubKey(k) ==
    IF k.pkey.pub = NoPoint \/ k.pkey.conv = 0 THEN [ret |-> "throw", bytes |-> <<>>]
    ELSE [ret |-> "ok", bytes |-> PointToOct(k.pkey.pub, k.pkey.conv)]

\* CKey::SetPubKey: o2i_ECPublicKey keeps the EC_KEY and replaces its point
SetPubKey(k, vchPubKey) ==
    LET o == OctToPoint(vchPubKey)
    IN IF o.ok
       THEN LET set == [k EXCEPT !.pkey.pub = o.pt, !.pkey.conv = o.form, !.fSet = TRUE]
            IN [ret |-> "true",
                key |-> IF Len(vchPubKey) = 33 THEN SetCompressedPubKey(set, TRUE) ELSE set]
       ELSE [ret |-> "false", key |-> Reset(k)]

\* EC_KEY_check_key
EC_KEY_check_key(eckey) ==
    /\ eckey.pub # NoPoint
    /\ ~eckey.pub.inf
    /\ OnCurve(eckey.pub.x, eckey.pub.y)
    /\ PointMul(OrderN, eckey.pub).inf
    /\ eckey.priv # NoBN => (eckey.priv < OrderN /\ GMul(eckey.priv) = eckey.pub)

\* d2i_ECPrivateKey on an ECPrivateKey structure given by its parsed fields:
\* parses (the DER is well formed), priv (the privateKey octets' value),
\* pub (the publicKey octets, empty when the field is absent).  The private
\* key is stored and the public point replaced by a new one, at infinity,
\* before the publicKey octets are decoded into it: when they do not decode
\* the call fails and the EC_KEY keeps both, and its conversion form.
D2iECPrivateKey(eckey, blob) ==
    IF ~blob.parses THEN [ok |-> FALSE, pkey |-> eckey]
    ELSE IF Len(blob.pub) = 0
         THEN [ok |-> TRUE, pkey |-> [eckey EXCEPT !.priv = blob.priv, !.pub = GMul(blob.priv)]]
    ELSE LET o == OctToPoint(blob.pub)
         IN IF ~o.ok
            THEN [ok |-> FALSE,
                  pkey |-> [eckey EXCEPT !.priv = blob.priv,
                                         !.pub = IF o.pt = NoPoint THEN Infinity ELSE o.pt]]
            ELSE [ok |-> TRUE,
                  pkey |-> [priv |-> blob.priv, pub |-> o.pt, conv |-> o.form]]

\* CKey::SetPrivKey
SetPrivKey(k, vchPrivKey) ==
    LET d == D2iECPrivateKey(k.pkey, vchPrivKey)
    IN IF d.ok /\ EC_KEY_check_key(d.pkey)
       THEN [ret |-> "true", key |-> [k EXCEPT !.pkey = d.pkey, !.fSet = TRUE]]
       ELSE [ret |-> "false", key |-> Reset(k)]

\* a header test that lets 35 through
CompactHeaderBadAbove35(nV) == nV < 27 \/ nV > 35

\* the header test of SetCompactSignature: nV<27 || nV>=35
CompactHeaderBad(nV) == nV < 27 \/ nV >= 35

\* CKey::SetCompactSignature, e the hash: ret, the key afterwards, and the
\* call made to the recovery engine (none when the input is turned away)
SetCompactSignature(k, e, vchSig) ==
    IF Len(vchSig) # 65 THEN [ret |-> "false", key |-> k, call |-> <<>>]
    ELSE IF CompactHeaderBad(vchSig[1]) THEN [ret |-> "false", key |-> k, call |-> <<>>]
    ELSE LET sig_r == BinToBN(SubSeq(vchSig, 2, 33))
             sig_s == BinToBN(SubSeq(vchSig, 34, 65))
             fresh == [k EXCEPT !.pkey = FreshECKey]
             cmp == IF vchSig[1] >= 31 THEN SetCompressedPubKey(fresh, TRUE) ELSE fresh
             nV == IF vchSig[1] >= 31 THEN vchSig[1] - 4 ELSE vchSig[1]
             rec == ECDSA_SIG_recover_key_GFp(cmp.pkey, sig_r, sig_s, e, nV - 27, FALSE)
             call == <<[recid |-> nV - 27, check |-> FALSE,
                        compressed |-> cmp.pkey.conv = ConvCompressed]>>
         IN IF rec.ret = 1
            THEN [ret |-> "true", key |-> [cmp EXCEPT !.pkey = rec.pkey, !.fSet = TRUE],
                  call |-> call]
            ELSE [ret |-> "false", key |-> [cmp EXCEPT !.pkey = rec.pkey], call |-> call]

\* a VerifyCompact that compares the points and not their serialisations
VerifyCompactPointsOnly(k, e, vchSig) ==
    LET rec == SetCompactSignature(NewCKey, e, vchSig)
    IN IF rec.ret # "true" THEN "false"
       ELSE IF GetPubKey(k).ret = "throw" \/ GetPubKey(rec.key).ret = "throw" THEN "throw"
       ELSE IF k.pkey.pub # rec.key.pkey.pub THEN "false"
       ELSE "true"

\* CKey::VerifyCompact: "true", "false", or "throw" out of GetPubKey
VerifyCompact(k, e, vchSig) ==
    LET rec == SetCompactSignature(NewCKey, e, vchSig)
    IN IF rec.ret # "true" THEN "false"
       ELSE IF GetPubKey(k).ret = "throw" \/ GetPubKey(rec.key).ret = "throw" THEN "throw"
       ELSE IF GetPubKey(k).bytes # GetPubKey(rec.key).bytes THEN "false"
       ELSE "true"

\* a Sign that leaves the resized vector to the caller when signing fails
SignKeepsBuffer(k, e, nonce) ==
    IF k.pkey.priv = NoBN \/ nonce \notin SignNonces(k.pkey.priv, e)
    THEN [ret |-> "false", sig |-> Zeros(6 + 2 * (FieldBytes + 1))]
    ELSE [ret |-> "true",
          sig |-> DerEncodeSig(BNToBin(SigR(nonce)), BNToBin(SigS(nonce, e, k.pkey.priv)))]

\* CKey::Sign with the nonce ECDSA_sign settles on: ret and the caller's vector
Sign(k, e, nonce) ==
    IF k.pkey.priv = NoBN \/ nonce \notin SignNonces(k.pkey.priv, e)
    THEN [ret |-> "false", sig |-> <<>>]
    ELSE [ret |-> "true",
          sig |-> DerEncodeSig(BNToBin(SigR(nonce)), BNToBin(SigS(nonce, e, k.pkey.priv)))]

\* a loop that ends on id 0 when no id matched
RECURSIVE FindRecIdDefault(_, _, _, _, _)
FindRecIdDefault(k, r, s, e, i) ==
    IF i >= 4 THEN 0
    ELSE LET fresh == [NewCKey EXCEPT !.fSet = TRUE]
             keyRec == IF k.fCompressedPubKey # 0 THEN SetCompressedPubKey(fresh, TRUE) ELSE fresh
             rec == ECDSA_SIG_recover_key_GFp(keyRec.pkey, r, s, e, i, TRUE)
         IN IF rec.ret = 1
               /\ GetPubKey([keyRec EXCEPT !.pkey = rec.pkey]).bytes = GetPubKey(k).bytes
            THEN i
            ELSE FindRecIdDefault(k, r, s, e, i + 1)

\* the loop of SignCompact over the recovery ids from i up: the first id
\* whose recovered key serialises as this key does, or -1
RECURSIVE FindRecId(_, _, _, _, _)
FindRecId(k, r, s, e, i) ==
    IF i >= 4 THEN -1
    ELSE LET fresh == [NewCKey EXCEPT !.fSet = TRUE]
             keyRec == IF k.fCompressedPubKey # 0 THEN SetCompressedPubKey(fresh, TRUE) ELSE fresh
             rec == ECDSA_SIG_recover_key_GFp(keyRec.pkey, r, s, e, i, TRUE)
         IN IF rec.ret = 1
               /\ GetPubKey([keyRec EXCEPT !.pkey = rec.pkey]).bytes = GetPubKey(k).bytes
            THEN i
            ELSE FindRecId(k, r, s, e, i + 1)

\* a header that leaves the compression offset out
CompactHeaderNoOffset(nRecId, fCompressedPubKey) == {nRecId + 27}

\* the header byte of SignCompact: nRecId+27+(fCompressedPubKey ? 4 : 0).
\* The builds compute the offset by testing the flag or as four times its
\* byte; the two agree on what a bool holds and differ on a byte that was
\* never written, where either can come out.
CompactHeader(nRecId, fCompressedPubKey) ==
    {nRecId + 27 + (IF fCompressedPubKey # 0 THEN 4 ELSE 0),
     (nRecId + 27 + 4 * fCompressedPubKey) % 256}

\* BN_num_bits of the number BN_bn2bin writes as the bytes bin
BinBits(bin) == IF Len(bin) = 0 THEN 0 ELSE 8 * (Len(bin) - 1) + NumBits(bin[1])

\* CKey::SignCompact from vchSig.clear() on, ECDSA_do_sign having returned
\* the pair whose BN_bn2bin bytes are binR and binS, nRecId being what the
\* loop over the recovery ids ends with: the outcomes of the call, each a
\* ret ("true", "false", "throw") and the vector afterwards
CompactFill(fCompressedPubKey, binR, binS, nRecId) ==
    LET nBitsR == BinBits(binR)
        nBitsS == BinBits(binS)
        cleared == Zeros(65)
    IN IF nBitsR <= 256 /\ nBitsS <= 256
       THEN IF nRecId = -1 THEN {[ret |-> "throw", sig |-> cleared]}
            ELSE {LET hdr == [cleared EXCEPT ![1] = header]
                      withR == WriteAt(hdr, 33 - (nBitsR + 7) \div 8, binR)
                      withS == WriteAt(withR, 65 - (nBitsS + 7) \div 8, binS)
                  IN [ret |-> "true", sig |-> withS]
                    : header \in CompactHeader(nRecId, fCompressedPubKey)}
       ELSE {[ret |-> "false", sig |-> cleared]}

\* CKey::SignCompact with the nonce ECDSA_do_sign settles on, vchSig the
\* caller's vector before the call: the outcomes of the call, each a ret
\* ("true", "false", "throw") and the vector afterwards
SignCompact(k, e, nonce, vchSig) ==
    IF k.pkey.priv = NoBN \/ nonce \notin SignNonces(k.pkey.priv, e)
    THEN {[ret |-> "false", sig |-> vchSig]}
    ELSE LET sig_r == SigR(nonce)
             sig_s == SigS(nonce, e, k.pkey.priv)
         IN CompactFill(k.fCompressedPubKey, BNToBin(sig_r), BNToBin(sig_s),
                        FindRecId(k, sig_r, sig_s, e, 0))

\* a test of the decoder's result that never sees a failure
D2iFailedNever(norm_sig) == FALSE

\* d2i_ECDSA_SIG(&norm_sig, &sigptr, vchSig.size()) == NULL
D2iFailed(norm_sig) == ~norm_sig.ok

\* the part of CKey::Verify after NormalizeSignature succeeded
VerifyNormalized(k, e, vchSig) ==
    IF Len(vchSig) = 0 THEN FALSE
    ELSE LET norm_sig == DerDecodeSig(vchSig)
         IN IF D2iFailed(norm_sig) THEN FALSE
            ELSE LET norm_der == DerEncodeSig(norm_sig.r, norm_sig.s)
                 IN IF Len(norm_der) <= 0 THEN FALSE
                    ELSE EcdsaVerify(k.pkey, e, norm_der) = 1

\* CKey::Verify: the outcomes of the call, "true", "false" or "fault"
Verify(k, e, vchSigParam) ==
    {IF n.ret = "fault" THEN "fault"
     ELSE IF n.ret = "false" THEN "false"
     ELSE IF VerifyNormalized(k, e, n.sig) THEN "true" ELSE "false"
       : n \in NormalizeSignature(vchSigParam)}

\* CKey::IsValid: the outcomes of the call, "true" or "false", or "throw"
\* or "fault" out of GetSecret, SetSecret or GetPubKey
IsValid(k) ==
    IF ~k.fSet THEN {"false"}
    ELSE IF ~EC_KEY_check_key(k.pkey) THEN {"false"}
    ELSE {IF g.ret # "ok" THEN g.ret
          ELSE LET key2 == SetSecret(NewCKey, g.secret, g.fCompressed # 0)
               IN IF key2.ret = "throw" THEN "throw"
                  ELSE IF GetPubKey(k).ret = "throw" \/ GetPubKey(key2.key).ret = "throw"
                       THEN "throw"
                  ELSE IF GetPubKey(k).bytes = GetPubKey(key2.key).bytes
                       THEN "true" ELSE "false"
            : g \in GetSecret(k)}

\* ------------------------------------------------------------------------
\* State
\* ------------------------------------------------------------------------

VARIABLES
    key,      \* the CKey the operations are invoked on
    other,    \* a second CKey object of the caller
    caller,   \* the caller's locals: hash, vchSig, canon, secret, fCompressed,
              \* and where they came from (from) and whether that call
              \* returned true (ok)
    last      \* the last call completed: op, ret, pre (key before), arg, out

vars == <<key, other, caller, last>>

NoCall == [op |-> "none", ret |-> "none", pre |-> NewCKey, arg |-> <<>>, out |-> <<>>]

Call(op, ret, pre, arg, out) ==
    [op |-> op, ret |-> ret, pre |-> pre, arg |-> arg, out |-> out]

NoLocals == [hash |-> 0, vchSig |-> <<>>, canon |-> <<>>, secret |-> <<>>,
             fCompressed |-> 0, from |-> "none", ok |-> FALSE]

\* ------------------------------------------------------------------------
\* Inputs
\* ------------------------------------------------------------------------

\* how many scalars EC_KEY_generate_key is let draw from
NumGenScalars == 3

\* the scalars EC_KEY_generate_key draws in the model, all within [1, n-1]
GenScalarList == <<77, 1, OrderN - 1, 2, 100>>

GenScalars == {GenScalarList[i] : i \in 1..NumGenScalars}

\* a 32-byte big-endian secret of value v
SecretOf(v) == Zeros(32 - NumBytes(v)) \o BNToBin(v)

\* secrets handed to SetSecret: zero, in range, the order, above the order,
\* and two that are not 32 bytes long
SecretInputs ==
    {SecretOf(v) : v \in {0, 1, 77, OrderN - 1, OrderN, OrderN + 77}}
    \cup {SubSeq(SecretOf(77), 2, 32), SecretOf(77) \o <<0>>}

\* the hashes used: one below the group order and one above it
HashList == <<9, 200>>

\* the hash the lifecycle calls use
LifeHash == HashList[1]

\* a compact signature with the given header and values of r and s
CompactOf(hdr, r, s) == <<hdr>> \o FieldElem(r) \o FieldElem(s)

\* (r, s) pairs for compact signatures: a signature of LifeHash by scalar 77
\* under nonce 5, one whose r has no point, and r = 0
CompactPairs == {<<SigR(5), SigS(5, LifeHash, 77)>>, <<4, 3>>, <<0, 1>>}

\* compact signatures handed to SetCompactSignature: every header from 26 to
\* 35 around the valid range, and lengths 0, 64 and 66
CompactInputs ==
    {CompactOf(h, rs[1], rs[2]) : h \in 26..35, rs \in CompactPairs}
    \cup {<<>>, SubSeq(CompactOf(27, 4, 3), 1, 64), CompactOf(27, 4, 3) \o <<0>>}

\* public keys handed to SetPubKey: the three encodings of a point, the
\* point at infinity, an abscissa with no point, a truncated encoding and
\* the empty string
PubKeyInputs ==
    {PointToOct(GMul(77), ConvCompressed), PointToOct(GMul(77), ConvUncompressed),
     PointToOct(GMul(77), ConvHybrid), PointToOct(Infinity, ConvUncompressed),
     <<2>> \o FieldElem(0), <<2, 130>>, <<>>}

\* ECPrivateKey structures handed to SetPrivKey: without and with the public
\* key field, a public key that is not the private key's, a private key not
\* below the order, and bytes that do not parse
PrivKeyInputs ==
    {[parses |-> TRUE, priv |-> 77, pub |-> <<>>],
     [parses |-> TRUE, priv |-> 77, pub |-> PointToOct(GMul(77), ConvCompressed)],
     [parses |-> TRUE, priv |-> 77, pub |-> PointToOct(GMul(77), ConvUncompressed)],
     [parses |-> TRUE, priv |-> 77, pub |-> PointToOct(GMul(2), ConvUncompressed)],
     [parses |-> TRUE, priv |-> OrderN + 77, pub |-> <<>>],
     [parses |-> FALSE, priv |-> 0, pub |-> <<>>]}

\* ------------------------------------------------------------------------
\* The life of one CKey
\* ------------------------------------------------------------------------

Init ==
    /\ key = NewCKey
    /\ other = NewCKey
    /\ caller = NoLocals
    /\ last = NoCall

DoReset ==
    /\ key' = Reset(key)
    /\ last' = Call("Reset", "void", key, <<>>, <<>>)
    /\ UNCHANGED <<other, caller>>

DoMakeNewKey ==
    \E d \in GenScalars, c \in BOOLEAN :
        /\ key' = MakeNewKey(key, d, c)
        /\ last' = Call("MakeNewKey", "void", key, <<d, c>>, <<>>)
        /\ UNCHANGED <<other, caller>>

DoSetSecret ==
    \E sec \in SecretInputs, c \in BOOLEAN :
        LET res == SetSecret(key, sec, c)
        IN /\ key' = res.key
           /\ last' = Call("SetSecret", res.ret, key, <<sec, c>>, <<>>)
           /\ UNCHANGED <<other, caller>>

DoSetPubKey ==
    \E pub \in PubKeyInputs :
        LET res == SetPubKey(key, pub)
        IN /\ key' = res.key
           /\ last' = Call("SetPubKey", res.ret, key, <<pub>>, <<>>)
           /\ UNCHANGED <<other, caller>>

DoSetPrivKey ==
    \E blob \in PrivKeyInputs :
        LET res == SetPrivKey(key, blob)
        IN /\ key' = res.key
           /\ last' = Call("SetPrivKey", res.ret, key, <<blob>>, <<>>)
           /\ UNCHANGED <<other, caller>>

DoSetCompactSignature ==
    \E sig \in CompactInputs :
        LET res == SetCompactSignature(key, LifeHash, sig)
        IN /\ key' = res.key
           /\ last' = Call("SetCompactSignature", res.ret, key, <<LifeHash, sig>>, res.call)
           /\ UNCHANGED <<other, caller>>

Next ==
    \/ DoReset
    \/ DoMakeNewKey
    \/ DoSetSecret
    \/ DoSetPubKey
    \/ DoSetPrivKey
    \/ DoSetCompactSignature

Spec == Init /\ [][Next]_vars
\* ------------------------------------------------------------------------
\* Properties of the life of one CKey (specification Spec)
\* ------------------------------------------------------------------------

RekeyOps == {"SetSecret", "SetPubKey", "SetPrivKey", "SetCompactSignature"}

\* C7: SetSecret fails with a key_error when the 32-byte secret is zero or
\* not below the curve order, and succeeds only for scalars in [1, n-1].
C7_SetSecretRejectsOutOfRange ==
    (last.op = "SetSecret" /\ Len(last.arg[1]) = 32) =>
        LET v == BinToBN(last.arg[1])
        IN /\ (v = 0 \/ v >= OrderN) => last.ret = "throw"
           /\ last.ret = "true" => v \in 1..(OrderN - 1)

\* C8: SetCompactSignature returns false and leaves the key as it was when
\* the input is not 65 bytes long or its header is outside [27, 34]; a
\* 65-byte input with a header in [27, 34] reaches the recovery engine with
\* recovery id (header - 27) mod 4 and compressed = (header >= 31).
C8_CompactStructuralCheck ==
    last.op = "SetCompactSignature" =>
        LET sig == last.arg[2]
        IN IF Len(sig) # 65 \/ sig[1] < 27 \/ sig[1] > 34
           THEN last.ret = "false" /\ key = last.pre /\ last.out = <<>>
           ELSE last.out = <<[recid |-> (sig[1] - 27) % 4, check |-> FALSE,
                              compressed |-> sig[1] >= 31]>>

\* a 65-byte input with header 35 was turned away from a key that was set
C8_Witness ==
    /\ last.op = "SetCompactSignature"
    /\ Len(last.arg[2]) = 65
    /\ last.arg[2][1] = 35
    /\ last.pre.fSet
    /\ last.ret = "false"

\* C9: a re-keying operation that fails (returns false or throws) leaves
\* the key exactly as it was before the call or in the null state.
C9_FailedRekeyAtomic ==
    (last.op \in RekeyOps /\ last.ret \in {"false", "throw"}) =>
        (key = last.pre \/ key = NewCKey)

\* C10: after MakeNewKey(c), or SetSecret(secret, c) with a scalar in
\* [1, n-1], succeeds on a key in any prior state, IsCompressed() is c and
\* GetPubKey() has 33 bytes if c and 65 bytes otherwise.
C10_CompressedFollowsArgument ==
    LET c == last.arg[2]
    IN (\/ last.op = "MakeNewKey"
        \/ /\ last.op = "SetSecret"
           /\ last.ret = "true"
           /\ BinToBN(last.arg[1]) \in 1..(OrderN - 1))
       => /\ IsCompressed(key) = (IF c THEN 1 ELSE 0)
          /\ Len(GetPubKey(key).bytes) = (IF c THEN 33 ELSE 65)

\* C11: SetPubKey succeeds only for a 33-byte compressed or a 65-byte
\* uncompressed encoding of a point of the curve; after a success on a key
\* in any prior state IsCompressed() is true exactly when the input has 33
\* bytes and GetPubKey() returns as many bytes as the input has.
C11_SetPubKeyByLength ==
    (last.op = "SetPubKey" /\ last.ret = "true") =>
        LET b == last.arg[1]
        IN /\ \/ Len(b) = 33 /\ b[1] \in {ConvCompressed, ConvCompressed + 1}
              \/ Len(b) = 65 /\ b[1] = ConvUncompressed
           /\ OctToPoint(b).ok /\ ~OctToPoint(b).pt.inf
           /\ IsCompressed(key) = (IF Len(b) = 33 THEN 1 ELSE 0)
           /\ GetPubKey(key).ret = "ok"
           /\ Len(GetPubKey(key).bytes) = Len(b)

\* C12: when SetPubKey or SetPrivKey returns false the key ends in the null
\* state, whatever it was before: IsNull() is true, IsCompressed() is false
\* and the handle is a fresh one with no private and no public component.
C12_RejectedImportResets ==
    (last.op \in {"SetPubKey", "SetPrivKey"} /\ last.ret = "false") =>
        /\ IsNull(key)
        /\ IsCompressed(key) = 0
        /\ key.pkey.priv = NoBN
        /\ key.pkey.pub = NoPoint
        /\ key.pkey.conv = ConvUncompressed

\* a compressed key holding a key pair was handed a private key blob that
\* was turned away
C12_Witness ==
    /\ last.op = "SetPrivKey"
    /\ last.ret = "false"
    /\ last.pre.fSet
    /\ last.pre.fCompressedPubKey = 1
    /\ last.pre.pkey.priv # NoBN
    /\ IsNull(key)

\* ------------------------------------------------------------------------
\* Exporting a secret and importing it into another CKey (SpecSecret)
\* ------------------------------------------------------------------------

\* key.MakeNewKey(c): the key pair kp whose secret is exported
RGenerate ==
    \E d \in GenScalars, c \in BOOLEAN :
        /\ key' = MakeNewKey(key, d, c)
        /\ caller' = NoLocals
        /\ last' = Call("MakeNewKey", "void", key, <<d, c>>, <<>>)
        /\ UNCHANGED other

\* secret = key.GetSecret(fCompressed)
RGetSecret ==
    /\ key.fSet
    /\ \E g \in GetSecret(key) :
          /\ caller' = [caller EXCEPT !.secret = g.secret,
                                      !.fCompressed = g.fCompressed,
                                      !.from = "GetSecret",
                                      !.ok = (g.ret = "ok")]
          /\ last' = Call("GetSecret", g.ret, key, <<>>, <<>>)
    /\ UNCHANGED <<key, other>>

\* k2.MakeNewKey(c): what the key k2 was used for before the import
RBefore ==
    /\ IsNull(other)
    /\ caller.from = "none"
    /\ \E d \in GenScalars, c \in BOOLEAN :
          /\ other' = MakeNewKey(other, d, c)
          /\ last' = Call("MakeNewKey", "void", other, <<d, c>>, <<>>)
    /\ UNCHANGED <<key, caller>>

\* k2.SetSecret(secret, fCompressed) with what GetSecret returned, k2 newly
\* constructed or used before
RSetSecret ==
    /\ caller.from = "GetSecret"
    /\ LET res == SetSecret(other, caller.secret, caller.fCompressed # 0)
       IN /\ other' = res.key
          /\ last' = Call("SetSecret", res.ret, other,
                          <<caller.secret, caller.fCompressed>>, <<>>)
    /\ UNCHANGED <<key, caller>>

NextSecret == RGenerate \/ RGetSecret \/ RBefore \/ RSetSecret

SpecSecret == Init /\ [][NextSecret]_vars

\* C6: for a generated key kp (key) with (secret, c) = kp.GetSecret(), a
\* key k2 (other) on which SetSecret(secret, c) is called returns from
\* GetSecret() the same 32 bytes and the same flag c, and has the same
\* public key bytes as kp.
C6_SecretRoundTrip ==
    (last.op = "SetSecret" /\ caller.from = "GetSecret") =>
        /\ last.ret = "true"
        /\ \A g \in GetSecret(other) :
              /\ g.ret = "ok"
              /\ g.secret = caller.secret
              /\ g.fCompressed = caller.fCompressed
        /\ GetPubKey(other).bytes = GetPubKey(key).bytes
        /\ Len(caller.secret) = 32

\* ------------------------------------------------------------------------
\* Signing, verifying and recovering (SpecSign, SpecCompact)
\* ------------------------------------------------------------------------

\* how many scalars the signing keys are generated from
NumSignScalars == 2

SignScalars == {GenScalarList[i] : i \in 1..NumSignScalars}

\* the hashes signed
SignHashes == {HashList[i] : i \in 1..Len(HashList)}

\* secrets imported as signing keys besides the generated ones: zero and a
\* value above the order (SetSecret takes both)
SignSecrets == {SecretOf(0), SecretOf(OrderN + 77)}

\* the nonces the signing primitive can settle on, or 0 when it has none
NonceChoices(k, e) ==
    IF k.pkey.priv = NoBN \/ SignNonces(k.pkey.priv, e) = {} THEN {0}
    ELSE SignNonces(k.pkey.priv, e)

InitSign ==
    /\ key = NewCKey
    /\ other = NewCKey
    /\ caller \in {[NoLocals EXCEPT !.hash = h] : h \in SignHashes}
    /\ last = NoCall

\* the signer's key: key.MakeNewKey(c)
GMakeNewKey ==
    /\ IsNull(key)
    /\ \E d \in SignScalars, c \in BOOLEAN :
          /\ key' = MakeNewKey(key, d, c)
          /\ last' = Call("MakeNewKey", "void", key, <<d, c>>, <<>>)
    /\ UNCHANGED <<other, caller>>

\* the signer's key: key.SetSecret(secret, c)
GSetSecret ==
    /\ IsNull(key)
    /\ \E sec \in SignSecrets, c \in BOOLEAN :
          LET res == SetSecret(key, sec, c)
          IN /\ key' = res.key
             /\ last' = Call("SetSecret", res.ret, key, <<sec, c>>, <<>>)
    /\ UNCHANGED <<other, caller>>

\* the verifier's key: other.SetPubKey(bytes), the bytes either encoding of
\* the signer's point or of another point
GImport ==
    /\ key.fSet
    /\ IsNull(other)
    /\ caller.from = "none"
    /\ \E P \in {key.pkey.pub, GMul(2)}, f \in {ConvCompressed, ConvUncompressed} :
          LET res == SetPubKey(other, PointToOct(P, f))
          IN /\ other' = res.key
             /\ last' = Call("SetPubKey", res.ret, other, <<PointToOct(P, f)>>, <<>>)
    /\ UNCHANGED <<key, caller>>

\* key.Sign(hash, vchSig)
GSign ==
    /\ key.fSet
    /\ caller.from = "none"
    /\ \E nonce \in NonceChoices(key, caller.hash) :
          LET res == Sign(key, caller.hash, nonce)
          IN /\ caller' = [caller EXCEPT !.vchSig = res.sig, !.from = "Sign",
                                          !.ok = (res.ret = "true")]
             /\ last' = Call("Sign", res.ret, key, <<caller.hash>>, <<>>)
    /\ UNCHANGED <<key, other>>

\* key.SignCompact(hash, vchSig)
GSignCompact ==
    /\ key.fSet
    /\ caller.from = "none"
    /\ \E nonce \in NonceChoices(key, caller.hash) :
          \E res \in SignCompact(key, caller.hash, nonce, caller.vchSig) :
             /\ caller' = [caller EXCEPT !.vchSig = res.sig, !.from = "SignCompact",
                                          !.ok = (res.ret = "true")]
             /\ last' = Call("SignCompact", res.ret, key, <<caller.hash, nonce>>, <<>>)
    /\ UNCHANGED <<key, other>>

\* the key a verification is run on
KeyOf(who) == IF who = "key" THEN key ELSE other

\* k.Verify(hash, vchSig) on the signer's key or on the verifier's
GVerify ==
    /\ caller.from = "Sign"
    /\ \E who \in {"key", "other"} :
          \E v \in Verify(KeyOf(who), caller.hash, caller.vchSig) :
              last' = Call("Verify", v, KeyOf(who), <<who>>, <<>>)
    /\ UNCHANGED <<key, other, caller>>

\* CKey k; k.SetCompactSignature(hash, vchSig): out is the key recovered
GRecover ==
    /\ caller.from = "SignCompact"
    /\ LET res == SetCompactSignature(NewCKey, caller.hash, caller.vchSig)
       IN last' = Call("SetCompactSignature", res.ret, NewCKey,
                       <<caller.hash, caller.vchSig>>, <<res.key>>)
    /\ UNCHANGED <<key, other, caller>>

\* k.VerifyCompact(hash, vchSig) on the signer's key or on the verifier's
GVerifyCompact ==
    /\ caller.from = "SignCompact"
    /\ \E who \in {"key", "other"} :
          last' = Call("VerifyCompact",
                       VerifyCompact(KeyOf(who), caller.hash, caller.vchSig),
                       KeyOf(who), <<who>>, <<>>)
    /\ UNCHANGED <<key, other, caller>>

\* DER signatures: keys are set up, the signer signs, either key verifies
NextSign ==
    \/ GMakeNewKey
    \/ GSetSecret
    \/ GImport
    \/ GSign
    \/ GVerify

SpecSign == InitSign /\ [][NextSign]_vars

\* compact signatures: keys are set up, the signer signs, a fresh key
\* recovers and either key verifies
NextCompact ==
    \/ GMakeNewKey
    \/ GSetSecret
    \/ GImport
    \/ GSignCompact
    \/ GRecover
    \/ GVerifyCompact

SpecCompact == InitSign /\ [][NextCompact]_vars

\* C1: when Sign(hash, sig) returns true on a key holding a private scalar,
\* Verify(hash, sig) on a key with the same public point returns true.
C1_SignThenVerify ==
    (/\ last.op = "Verify"
     /\ caller.from = "Sign"
     /\ caller.ok
     /\ last.pre.pkey.pub = key.pkey.pub)
    => last.ret = "true"

\* a public-only key holding the signer's point verified a signature whose
\* r and s both take a leading zero byte in DER
C1_Witness ==
    /\ last.op = "Verify"
    /\ caller.from = "Sign"
    /\ caller.ok
    /\ last.arg = <<"other">>
    /\ other.pkey.priv = NoBN
    /\ other.pkey.pub = key.pkey.pub
    /\ Len(caller.vchSig) = 10
    /\ last.ret = "true"

RecoveredNow == SetCompactSignature(NewCKey, caller.hash, caller.vchSig)

\* C5 as stated: VerifyCompact on a key with public point P returns true if
\* and only if SetCompactSignature succeeds on a fresh key and the point
\* recovered equals P, whatever the encodings.
C5_VerifyCompactByPoint ==
    last.op = "VerifyCompact" =>
        (last.ret = "true" <=>
            (RecoveredNow.ret = "true" /\ RecoveredNow.key.pkey.pub = last.pre.pkey.pub))

\* C5 as amended: VerifyCompact on a key returns true if and only if
\* SetCompactSignature succeeds on a fresh key, the key holds a public
\* point that GetPubKey() can serialise, the point recovered equals it and,
\* unless that point is the point at infinity (which has one encoding), the
\* form the signature header selects is the form the key serialises with.
C5_VerifyCompactByBytes ==
    last.op = "VerifyCompact" =>
        (last.ret = "true" <=>
            (/\ RecoveredNow.ret = "true"
             /\ last.pre.pkey.pub # NoPoint
             /\ RecoveredNow.key.pkey.pub = last.pre.pkey.pub
             /\ GetPubKey(last.pre).ret = "ok"
             /\ (last.pre.pkey.pub.inf
                 \/ RecoveredNow.key.pkey.conv = last.pre.pkey.conv)))

\* a public-only key serialising as the signature header says accepted the
\* signature
C5_Witness ==
    /\ last.op = "VerifyCompact"
    /\ last.arg = <<"other">>
    /\ other.fSet
    /\ ~other.pkey.pub.inf
    /\ last.ret = "true"

\* ------------------------------------------------------------------------
\* The layout of a compact signature for every size of r and s (SpecLayout)
\* ------------------------------------------------------------------------

\* the longest r or s ECDSA_do_sign is let return, in bytes: one more than
\* the 32 a compact signature has room for
MaxSigBytes == FieldBytes + 1

\* the leading bytes of r and s: one for each number of bits in a byte, and
\* a byte with all bits set
LeadBytes == {1, 2, 4, 8, 16, 32, 64, 128, 255}

\* the n bytes that follow the leading byte of an r or s of n + 1 bytes,
\* zero bytes among them
TailBytes(n) == [j \in 1..n |-> (j * 64 + n) % 256]

\* the BN_bn2bin bytes of the numbers r and s range over: every bit length
\* from 1 to 8 * MaxSigBytes
SigNumbers == {<<f>> \o TailBytes(n - 1) : f \in LeadBytes, n \in 1..MaxSigBytes}

\* numbers of 1 bit, of 256 bits and of 257 bits
SigAnchors == {<<1>>, <<128>> \o TailBytes(FieldBytes - 1), <<1>> \o TailBytes(FieldBytes)}

\* what ECDSA_do_sign returns: NULL (no bytes for r) or a pair (r, s), one
\* of the two ranging over all sizes
DoSignResults ==
    {[r |-> <<>>, s |-> <<>>]}
    \cup {[r |-> a, s |-> b] : a \in SigNumbers, b \in SigAnchors}
    \cup {[r |-> a, s |-> b] : a \in SigAnchors, b \in SigNumbers}

\* what the caller's vector holds before the call
LayoutVectors == {<<>>, [i \in 1..66 |-> 255]}

InitLayout ==
    /\ key = NewCKey
    /\ other = NewCKey
    /\ caller \in {[NoLocals EXCEPT !.vchSig = v] : v \in LayoutVectors}
    /\ last = NoCall

\* key.SignCompact(hash, vchSig) on the curve of the program, where r and s
\* have up to 256 bits: sig is what ECDSA_do_sign returned and nRecId what
\* the loop over the four recovery ids ended with, both any of the
\* outcomes the library arithmetic can have
LSignCompact ==
    /\ key.fSet
    /\ caller.from = "none"
    /\ \E sig \in DoSignResults, nRecId \in -1..3 :
          \E res \in IF Len(sig.r) = 0 THEN {[ret |-> "false", sig |-> caller.vchSig]}
                      ELSE CompactFill(key.fCompressedPubKey, sig.r, sig.s, nRecId) :
             /\ caller' = [caller EXCEPT !.vchSig = res.sig, !.from = "SignCompact",
                                          !.ok = (res.ret = "true")]
             /\ last' = Call("SignCompact", res.ret, key, <<sig, nRecId>>, <<>>)
    /\ UNCHANGED <<key, other>>

NextLayout == GMakeNewKey \/ LSignCompact

SpecLayout == InitLayout /\ [][NextLayout]_vars

MaxLengthBytes == 8

\* the hash the signatures of this part are made for
DerHash == HashList[1]

\* how many nonces the signatures to re-encode are made with
NumDerNonces == 3

\* nonces giving r and s below and above 128 (one and two content bytes)
DerNonceList == <<5, 11, 55, 20, 67>>

DerNonces == {DerNonceList[i] : i \in 1..NumDerNonces}

\* the longest byte string drawn from WireAlphabet
MaxWireLen == 6

\* SEQUENCE tag (also a length of 48), INTEGER tag (also a length of 2), a
\* length of 1, and the long-form marker for one length byte
WireAlphabet == {48, 2, 1, 129}

RECURSIVE StringsUpTo(_)
StringsUpTo(n) ==
    IF n = 0 THEN {<<>>}
    ELSE LET shorter == StringsUpTo(n - 1)
         IN shorter \cup {Append(b, a) : b \in shorter, a \in WireAlphabet}

\* a signature of DerHash by scalar 77 under nonce 5, for the byte strings
\* derived from a real signature
SampleSig == DerEncodeSig(BNToBin(SigR(5)), BNToBin(SigS(5, DerHash, 77)))

\* a DER signature whose r takes 128 content bytes (01 00 ... 00) and whose
\* s is 1: the lengths 128 of r and 134 of the SEQUENCE take the long form
LongIntSig ==
    <<48, 129, 134, 2, 129, 128>> \o <<1>> \o Zeros(127) \o <<2, 1, 1>>

\* byte strings whose SEQUENCE length field is the indefinite-length byte
\* (on a real signature), takes 9 length bytes, holds 0x80000000,
\* 0x7fffffff on 4 and on 8 length bytes, 2^32 on 5, or is cut short
LengthProbes ==
    {[SampleSig EXCEPT ![2] = 128],
     <<48, 137, 0, 0, 0, 0, 0, 0, 0, 0, 1>>,
     <<48, 132, 128, 0, 0, 0>>,
     <<48, 132, 127, 255, 255, 255>>,
     <<48, 136, 0, 0, 0, 0, 127, 255, 255, 255>>,
     <<48, 133, 1, 0, 0, 0, 0>>,
     <<48, 132, 0, 0, 1>>}

\* the bytes of s, when they are among what NormalizeSignature reads past
\* the end of b, are at most one
OneByteBehind(b) ==
    LET n == NormalizeRun(b, <<>>)
    IN n.ret = "true" => n.over <= 1

\* byte strings an attacker sends: every string over WireAlphabet up to
\* MaxWireLen, every proper prefix of a real signature, a real signature
\* with a byte appended, one whose s claims more bytes than there are, one
\* with an integer of 128 bytes, and the length probes; of those that get
\* s from behind the vector, the ones that get one byte from there
WireInputs ==
    {b \in StringsUpTo(MaxWireLen)
           \cup {SubSeq(SampleSig, 1, n) : n \in 0..(Len(SampleSig) - 1)}
           \cup {SampleSig \o <<0>>, [SampleSig EXCEPT ![7] = 2], LongIntSig}
           \cup LengthProbes : OneByteBehind(b)}

\* the long form of length n on k length bytes
LongForm(n, k) == <<128 + k>> \o Zeros(k - NumBytes(n)) \o BNToBin(n)

\* a length field: short as it was (k = 0) or long on k bytes
LengthField(n, k) == IF k = 0 THEN <<n>> ELSE LongForm(n, k)

\* the canonical signature c with its three length fields re-encoded on
\* kt, kr and ks length bytes (0 keeps the short form); the SEQUENCE length
\* keeps its value, or with fix is the length of the longer contents
Reencode(c, kt, kr, ks, fix) ==
    LET lr == c[4]
        R == SubSeq(c, 5, 4 + lr)
        ls == c[6 + lr]
        S == SubSeq(c, 7 + lr, 6 + lr + ls)
        body == <<2>> \o LengthField(lr, kr) \o R \o <<2>> \o LengthField(ls, ks) \o S
    IN <<48>> \o LengthField(IF fix THEN Len(body) ELSE c[2], kt) \o body

InitDER ==
    /\ key = NewCKey
    /\ other = NewCKey
    /\ caller = [NoLocals EXCEPT !.hash = DerHash]
    /\ last = NoCall

\* the key the signatures are verified with
DMakeNewKey ==
    /\ IsNull(key)
    /\ key' = MakeNewKey(key, GenScalarList[1], FALSE)
    /\ last' = Call("MakeNewKey", "void", key, <<GenScalarList[1], FALSE>>, <<>>)
    /\ UNCHANGED <<other, caller>>

\* key.Sign(hash, vchSig): a canonical signature
DSign ==
    /\ key.fSet
    /\ caller.from = "none"
    /\ \E nonce \in DerNonces \cap SignNonces(key.pkey.priv, caller.hash) :
          LET res == Sign(key, caller.hash, nonce)
          IN /\ caller' = [caller EXCEPT !.vchSig = res.sig, !.canon = res.sig,
                                         !.from = "Sign", !.ok = (res.ret = "true")]
             /\ last' = Call("Sign", res.ret, key, <<caller.hash>>, <<>>)
    /\ UNCHANGED <<key, other>>

\* a canonical signature that is not one of the key: s replaced
DForge ==
    /\ caller.from = "Sign"
    /\ LET d == DerDecodeSig(caller.canon)
           forged == DerEncodeSig(d.r, BNToBin((MagValue(d.s) % (OrderN - 1)) + 1))
       IN caller' = [caller EXCEPT !.vchSig = forged, !.canon = forged, !.from = "Forge"]
    /\ last' = NoCall
    /\ UNCHANGED <<key, other>>

\* a third party re-encodes length fields of the canonical signature
DReencode ==
    /\ caller.from \in {"Sign", "Forge"}
    /\ \E kt \in 0..MaxLengthBytes, kr \in 0..MaxLengthBytes, ks \in 0..MaxLengthBytes,
          fix \in BOOLEAN :
          /\ kt + kr + ks > 0
          /\ caller' = [caller EXCEPT !.vchSig = Reencode(caller.canon, kt, kr, ks, fix),
                                      !.from = "Reencode"]
    /\ last' = NoCall
    /\ UNCHANGED <<key, other>>

\* bytes arrive from the wire
DReceive ==
    /\ key.fSet
    /\ caller.from = "none"
    /\ \E b \in WireInputs :
          caller' = [caller EXCEPT !.vchSig = b, !.from = "Wire"]
    /\ last' = NoCall
    /\ UNCHANGED <<key, other>>

\* NormalizeSignature(vchSig) on a copy of the caller's bytes: out is the
\* vector afterwards and whether a read went past its end
DNormalize ==
    /\ caller.from # "none"
    /\ \E n \in NormalizeSignature(caller.vchSig) :
          last' = Call("NormalizeSignature", n.ret, key, <<caller.vchSig>>, <<n.sig, n.oob>>)
    /\ UNCHANGED <<key, other, caller>>

\* ParseLength(vchSig.begin() + pos - 1, vchSig.end(), ...) on bytes from
\* the wire, at every position up to the end: out is nLengthRet and
\* nLengthSizeRet as the call leaves them, or empty when it wrote neither
DParseLength ==
    /\ caller.from = "Wire"
    /\ \E pos \in 1..(Len(caller.vchSig) + 1) :
          LET t == ParseLength(caller.vchSig, pos)
          IN last' = Call("ParseLength", IF t.ok THEN "true" ELSE "false", key,
                          <<caller.vchSig, pos>>,
                          IF pos > Len(caller.vchSig) THEN <<>> ELSE <<t.len, t.size>>)
    /\ UNCHANGED <<key, other, caller>>

\* key.Verify(hash, vchSig)
DVerify ==
    /\ caller.from # "none"
    /\ \E v \in Verify(key, caller.hash, caller.vchSig) :
          last' = Call("Verify", v, key, <<caller.vchSig>>, <<>>)
    /\ UNCHANGED <<key, other, caller>>

NextDER ==
    \/ DMakeNewKey
    \/ DSign
    \/ DForge
    \/ DReencode
    \/ DReceive
    \/ DNormalize
    \/ DParseLength
    \/ DVerify

SpecDER == InitDER /\ [][NextDER]_vars

\* C3: a re-encoding of a canonical DER signature that only lengthens length
\* fields (1 to 8 length bytes) is normalised to exactly the canonical
\* bytes, and Verify gives it the verdict it gives the canonical signature.
C3_ReencodingNormalises ==
    caller.from = "Reencode" =>
        /\ last.op = "NormalizeSignature" =>
              (last.ret = "true" /\ last.out[1] = caller.canon /\ ~last.out[2])
        /\ last.op = "Verify" =>
              Verify(key, caller.hash, caller.canon) = {last.ret}

\* a valid signature with every length field on 8 length bytes was accepted
C3_Witness ==
    /\ caller.from = "Reencode"
    /\ last.op = "Verify"
    /\ last.ret = "true"
    /\ Len(caller.vchSig) = Len(caller.canon) + 3 * MaxLengthBytes
    /\ caller.vchSig # caller.canon

\* the length field at the 1-based position pos is minimal: one byte below
\* 128, else the fewest length bytes that hold the length
MinimalLengthAt(b, pos) ==
    \/ b[pos] < 128
    \/ /\ b[pos] > 128
       /\ b[pos + 1] # 0
       /\ (b[pos] > 129 \/ b[pos + 1] >= 128)

\* C19: whenever NormalizeSignature returns true, the bytes it writes carry
\* minimal length fields for the SEQUENCE, for r and for s.
C19_MinimalLengthsWritten ==
    (last.op = "NormalizeSignature" /\ last.ret = "true") =>
        LET out == last.out[1]
            t == ParseLength(out, 2)
            rpos == 3 + t.size
            rl == ParseLength(out, rpos)
            spos == rpos + rl.size + rl.len + 1
        IN /\ MinimalLengthAt(out, 2)
           /\ MinimalLengthAt(out, rpos)
           /\ MinimalLengthAt(out, spos)

\* the bytes are SEQUENCE { INTEGER r, INTEGER s } with every length field
\* within the input: normalisation reads nothing past the end and what it
\* writes decodes strictly
WellFormedSig(b) ==
    LET n == NormalizeRun(b, <<>>)
    IN n.ret = "true" /\ ~n.oob /\ DerDecodeSig(n.sig).ok

\* C4: for every byte string, Verify ends with a boolean, false whenever the
\* bytes are not a well-formed SEQUENCE { INTEGER r, INTEGER s }; it never
\* throws, aborts or faults.
C4_VerifyNeverFaults ==
    last.op = "Verify" =>
        /\ last.ret \in {"true", "false"}
        /\ ~WellFormedSig(last.arg[1]) => last.ret = "false"

\* C22: NormalizeSignature returns false whenever a parse step fails, the
\* declared length of r or of s running past the end of the input included,
\* and on no input reads a byte at an index at or beyond the input's size.
C22_NormalizeStaysInside ==
    last.op = "NormalizeSignature" =>
        /\ last.ret \in {"true", "false"}
        /\ ~last.out[2]
        /\ OverRead(last.arg[1]) > 0 => last.ret = "false"

\* C23: ParseLength reads a length byte with top bit 0 as that value with
\* length-size 1; otherwise the low 7 bits are a count k of big-endian
\* length bytes, whose value it returns with length-size k + 1 when k is in
\* 1..8, the k bytes are present and the value is at most 0x7fffffff; it
\* returns false when k > 8, when the input ends first, when the value is
\* above 0x7fffffff, and for the indefinite-length byte 0x80 (k = 0).
C23_ParseLengthCases ==
    (last.op = "ParseLength" /\ last.arg[2] <= Len(last.arg[1])) =>
        LET v == last.arg[1]
            pos == last.arg[2]
            k == v[pos] % 128
            sig == StripZeros(SubSeq(v, pos + 1, pos + k))
        IN IF v[pos] < 128
           THEN last.ret = "true" /\ last.out = <<v[pos], 1>>
           ELSE IF /\ k \in 1..MaxLengthBytes
                   /\ pos + k <= Len(v)
                   /\ ~(Len(sig) > 4 \/ (Len(sig) = 4 /\ sig[1] >= 128))
                THEN last.ret = "true" /\ last.out = <<BinToBN(sig), k + 1>>
                ELSE last.ret = "false"

\* ------------------------------------------------------------------------
\* Using a CKey in whatever state its life left it (SpecUse)
\* ------------------------------------------------------------------------

\* how many nonces the signing primitive is let settle on
NumUseNonces == 3

\* nonces of the signing primitive: 18 gives r = 1 from an abscissa not
\* below the order
UseNonceList == <<5, 18, 67, 11>>

\* the nonces the signing primitive can settle on for k, or 0 when it has none
UseNonces(k) ==
    IF k.pkey.priv = NoBN THEN {0}
    ELSE {UseNonceList[i] : i \in 1..NumUseNonces} \cap SignNonces(k.pkey.priv, LifeHash)

\* what the caller's vector holds before SignCompact is called
UseBuffers == {<<>>, <<1, 2, 3>>}

\* key.GetSecret(fCompressed)
UGetSecret ==
    /\ \E g \in GetSecret(key) :
          last' = Call("GetSecret", g.ret, key, <<>>, <<g.secret, g.fCompressed>>)
    /\ UNCHANGED <<key, other, caller>>

\* key.IsValid()
UIsValid ==
    /\ \E v \in IsValid(key) :
          last' = Call("IsValid", v, key, <<>>, <<>>)
    /\ UNCHANGED <<key, other, caller>>

\* key.Sign(hash, vchSig)
USign ==
    /\ \E nonce \in UseNonces(key) :
          LET res == Sign(key, LifeHash, nonce)
          IN last' = Call("Sign", res.ret, key, <<LifeHash, nonce>>, <<res.sig>>)
    /\ UNCHANGED <<key, other, caller>>

\* key.SignCompact(hash, vchSig)
USignCompact ==
    /\ \E nonce \in UseNonces(key), buf \in UseBuffers :
          \E res \in SignCompact(key, LifeHash, nonce, buf) :
             last' = Call("SignCompact", res.ret, key, <<LifeHash, nonce, buf>>, <<res.sig>>)
    /\ UNCHANGED <<key, other, caller>>

NextUse ==
    \/ DoReset
    \/ DoMakeNewKey
    \/ DoSetSecret
    \/ DoSetPubKey
    \/ DoSetPrivKey
    \/ DoSetCompactSignature
    \/ UGetSecret
    \/ UIsValid
    \/ USign
    \/ USignCompact

SpecUse == Init /\ [][NextUse]_vars

\* C13: GetSecret on a key with no private component (null, or set only by
\* SetPubKey or SetCompactSignature) fails with a key_error, nothing having
\* been done with the absent scalar before its absence is detected.
C13_GetSecretWithoutPrivate ==
    (last.op = "GetSecret" /\ last.pre.pkey.priv = NoBN) => last.ret = "throw"

\* C14: IsValid() returns a boolean in every reachable state of the key,
\* true only if the key is set and holds a private scalar d in [1, n-1]
\* with d * G its public point, false (no error) for a null key and for a
\* public-only key, and it leaves the key as it was.
C14_IsValidTotal ==
    last.op = "IsValid" =>
        /\ last.ret \in {"true", "false"}
        /\ last.ret = "true" =>
              /\ last.pre.fSet
              /\ last.pre.pkey.priv \in 1..(OrderN - 1)
              /\ GMul(last.pre.pkey.priv) = last.pre.pkey.pub
        /\ last.pre.pkey.priv = NoBN => last.ret = "false"
        /\ key = last.pre

\* C17: SignCompact tries the recovery ids 0, 1, 2, 3 in that order with
\* the order check on and emits the smallest id whose recovered public key
\* equals the signer's GetPubKey(); when no id matches it throws a
\* key_error and emits no signature.
C17_SmallestMatchingId ==
    (last.op = "SignCompact" /\ last.pre.pkey.priv # NoBN) =>
        LET k == last.pre
            e == last.arg[1]
            r == SigR(last.arg[2])
            s == SigS(last.arg[2], e, k.pkey.priv)
            form == IF k.fCompressedPubKey # 0 THEN ConvCompressed ELSE ConvUncompressed
            Matches(i) ==
                LET rec == ECDSA_SIG_recover_key_GFp(FreshECKey, r, s, e, i, TRUE)
                IN /\ rec.ret = 1
                   /\ GetPubKey(k).ret = "ok"
                   /\ PointToOct(rec.pkey.pub, form) = GetPubKey(k).bytes
            ids == {i \in 0..3 : Matches(i)}
        IN IF ids = {}
           THEN last.ret = "throw"
           ELSE /\ last.ret = "true"
                /\ \E i \in ids :
                      /\ \A j \in ids : i <= j
                      /\ last.out[1][1] = 27 + i + (IF k.fCompressedPubKey # 0 THEN 4 ELSE 0)

\* a key whose flag says compressed while its point serialises uncompressed
\* found no recovery id and threw
C17_Witness ==
    /\ last.op = "SignCompact"
    /\ last.pre.pkey.priv # NoBN
    /\ last.pre.fCompressedPubKey = 1
    /\ last.pre.pkey.conv = ConvUncompressed
    /\ last.ret = "throw"

\* C18: on a key with no private component Sign returns false with an empty
\* vector and SignCompact returns false with the caller's vector untouched.
C18_NoPrivateNoSignature ==
    (last.op \in {"Sign", "SignCompact"} /\ last.pre.pkey.priv = NoBN) =>
        /\ last.ret = "false"
        /\ last.op = "Sign" => last.out[1] = <<>>
        /\ last.op = "SignCompact" => last.out[1] = last.arg[3]

\* SignCompact on a public-only key left the three bytes of the caller's
\* vector in place
C18_Witness ==
    /\ last.op = "SignCompact"
    /\ last.pre.fSet
    /\ last.pre.pkey.pub # NoPoint
    /\ last.pre.pkey.priv = NoBN
    /\ last.arg[3] = <<1, 2, 3>>
    /\ last.ret = "false"
    /\ last.out[1] = <<1, 2, 3>>

\* ------------------------------------------------------------------------
\* Copying a CKey (SpecCopy): key is the source b, other the copy
\* ------------------------------------------------------------------------

\* the key an operation is applied to
Target(who, k) == IF who = "key" THEN key' = k /\ UNCHANGED other
                  ELSE other' = k /\ UNCHANGED key

\* before the copy: MakeNewKey(c) on the source or on the key assigned to
KMakeNewKey ==
    /\ caller.from = "none"
    /\ \E who \in {"key", "other"}, d \in GenScalars, c \in BOOLEAN :
          /\ Target(who, MakeNewKey(KeyOf(who), d, c))
          /\ last' = Call("MakeNewKey", "void", KeyOf(who), <<who, d, c>>, <<>>)
    /\ UNCHANGED caller

\* before the copy: SetPubKey(bytes) on the source
KSetPubKey ==
    /\ caller.from = "none"
    /\ \E pub \in PubKeyInputs :
          LET res == SetPubKey(key, pub)
          IN /\ key' = res.key
             /\ last' = Call("SetPubKey", res.ret, key, <<"key", pub>>, <<>>)
    /\ UNCHANGED <<other, caller>>

\* before the copy: SetCompressedPubKey(c) on the source
KSetCompressedPubKey ==
    /\ caller.from = "none"
    /\ \E c \in BOOLEAN :
          /\ key' = SetCompressedPubKey(key, c)
          /\ last' = Call("SetCompressedPubKey", "void", key, <<"key", c>>, <<>>)
    /\ UNCHANGED <<other, caller>>

\* CKey other(key), on a copy not yet in use
KCopyConstruct ==
    /\ caller.from = "none"
    /\ other = NewCKey
    /\ \E c \in CopyConstruct(key) :
          /\ other' = c
          /\ last' = Call("copy", "void", other, <<>>, <<>>)
    /\ caller' = [caller EXCEPT !.from = "copy"]
    /\ UNCHANGED key

\* other = key
KAssign ==
    /\ caller.from = "none"
    /\ other' = Assign(other, key)
    /\ last' = Call("assign", "void", other, <<>>, <<>>)
    /\ caller' = [caller EXCEPT !.from = "copy"]
    /\ UNCHANGED key

\* after the copy: an operation on one of the two keys; pre is the other
\* key as it was before the operation
KAfter ==
    /\ caller.from = "copy"
    /\ \E who \in {"key", "other"} :
          LET rest == IF who = "key" THEN other ELSE key
          IN \/ /\ Target(who, Reset(KeyOf(who)))
                /\ last' = Call("Reset", "void", rest, <<who>>, <<>>)
             \/ \E d \in GenScalars, c \in BOOLEAN :
                   /\ Target(who, MakeNewKey(KeyOf(who), d, c))
                   /\ last' = Call("MakeNewKey", "void", rest, <<who, d, c>>, <<>>)
             \/ \E pub \in PubKeyInputs :
                   /\ Target(who, SetPubKey(KeyOf(who), pub).key)
                   /\ last' = Call("SetPubKey", SetPubKey(KeyOf(who), pub).ret, rest,
                                   <<who, pub>>, <<>>)
    /\ caller' = [caller EXCEPT !.from = "after"]

NextCopy ==
    \/ KMakeNewKey
    \/ KSetPubKey
    \/ KSetCompressedPubKey
    \/ KCopyConstruct
    \/ KAssign
    \/ KAfter

SpecCopy == Init /\ [][NextCopy]_vars

\* C15: a copy made by copy construction or by assignment has the source's
\* IsNull(), IsCompressed() and GetPubKey(), and its GetSecret() when the
\* source holds a private scalar; afterwards an operation on either key
\* leaves the other key as it was.
C15_CopyEqualsSource ==
    /\ last.op \in {"copy", "assign"} =>
          /\ IsNull(other) = IsNull(key)
          /\ IsCompressed(other) = IsCompressed(key)
          /\ GetPubKey(other) = GetPubKey(key)
          /\ key.pkey.priv # NoBN => GetSecret(other) = GetSecret(key)
    /\ caller.from = "after" =>
          (IF last.arg[1] = "key" THEN other ELSE key) = last.pre

\* C26: in every state reached through the public operations, IsCompressed()
\* is true exactly when the key serialises its point in compressed form, so
\* GetPubKey() of a set key has 33 bytes when IsCompressed() and 65 otherwise.
C26_FlagMatchesForm ==
    \A k \in {key, other} :
        /\ IsCompressed(k) # 0 <=> k.pkey.conv = ConvCompressed
        /\ (k.fSet /\ GetPubKey(k).ret = "ok") =>
              Len(GetPubKey(k).bytes) = IF IsCompressed(k) # 0 THEN 33 ELSE 65

\* ------------------------------------------------------------------------
\* Verify and VerifyCompact on two keys at once (SpecPar): worker 1 calls on
\* key, worker 2 on other; caller holds each call's locals (thr) and the
\* local CKey of each VerifyCompact (frame); last the keys as they began
\* ------------------------------------------------------------------------

Workers == {1, 2}

\* the CKey object worker w calls on
KeyOfWorker(w) == IF w = 1 THEN key ELSE other

\* a frame shared by every call, as a static local would be
FrameShared(w) == 1

\* the frame holding "CKey key;" of the VerifyCompact that worker w runs:
\* an automatic variable, one per call
FrameOf(w) == w

\* a worker between calls
ThreadIdle == [pc |-> "idle", op |-> "none", hash |-> 0, param |-> <<>>,
               vchSig |-> <<>>, ret |-> "none"]

\* the signer whose signatures are checked
ParSigner(c) == MakeNewKey(NewCKey, GenScalarList[1], c)

\* DER signatures handed to Verify: one of the signer, one made with
\* another scalar
ParDerSigs ==
    {Sign(ParSigner(FALSE), LifeHash, UseNonceList[1]).sig,
     DerEncodeSig(BNToBin(SigR(UseNonceList[1])),
                  BNToBin(SigS(UseNonceList[1], LifeHash, GenScalarList[4])))}

\* compact signatures handed to VerifyCompact: of the signer, compressed or not
ParCompactSigs ==
    {res.sig : res \in UNION {SignCompact(ParSigner(c), LifeHash, UseNonceList[1], <<>>)
                                 : c \in BOOLEAN}}

\* the public keys the workers verify with: the signer's point and another,
\* in either encoding
ParKeys ==
    {SetPubKey(NewCKey, PointToOct(GMul(d), f)).key :
        d \in {GenScalarList[1], GenScalarList[4]},
        f \in {ConvCompressed, ConvUncompressed}}

InitPar ==
    /\ key \in ParKeys
    /\ other \in ParKeys
    /\ caller = [thr |-> [w \in Workers |-> ThreadIdle],
                 frame |-> [w \in Workers |-> NewCKey]]
    /\ last = [key0 |-> key, other0 |-> other]

\* the thread state of worker w replaced
SetThr(w, t) == caller' = [caller EXCEPT !.thr[w] = t]

\* worker w enters Verify(hash, vchSigParam) or VerifyCompact(hash, vchSig)
PStart ==
    /\ \E w \in Workers :
          /\ caller.thr[w].pc = "idle"
          /\ \/ \E sig \in ParDerSigs :
                   SetThr(w, [ThreadIdle EXCEPT !.pc = "V518", !.op = "Verify",
                                                !.hash = LifeHash, !.param = sig])
             \/ \E sig \in ParCompactSigs :
                   SetThr(w, [ThreadIdle EXCEPT !.pc = "C555", !.op = "VerifyCompact",
                                                !.hash = LifeHash, !.param = sig])
    /\ UNCHANGED <<key, other, last>>

\* Verify, line 518: the local copy of the parameter
PCopy ==
    /\ \E w \in Workers :
          /\ caller.thr[w].pc = "V518"
          /\ SetThr(w, [caller.thr[w] EXCEPT !.pc = "V520", !.vchSig = caller.thr[w].param])
    /\ UNCHANGED <<key, other, last>>

\* Verify, lines 520-521: NormalizeSignature on the local copy
PNormalize ==
    /\ \E w \in Workers :
          /\ caller.thr[w].pc = "V520"
          /\ \E n \in NormalizeSignature(caller.thr[w].vchSig) :
                SetThr(w, IF n.ret = "true"
                          THEN [caller.thr[w] EXCEPT !.pc = "V523", !.vchSig = n.sig]
                          ELSE [caller.thr[w] EXCEPT !.pc = "done", !.ret = n.ret])
    /\ UNCHANGED <<key, other, last>>

\* Verify, lines 523-550: decode, re-encode, ECDSA_verify with this key
PDecodeVerify ==
    /\ \E w \in Workers :
          /\ caller.thr[w].pc = "V523"
          /\ SetThr(w, [caller.thr[w] EXCEPT
                          !.pc = "done",
                          !.ret = IF VerifyNormalized(KeyOfWorker(w), caller.thr[w].hash,
                                                      caller.thr[w].vchSig)
                                  THEN "true" ELSE "false"])
    /\ UNCHANGED <<key, other, last>>

\* VerifyCompact, line 555: CKey key;
PLocalKey ==
    /\ \E w \in Workers :
          /\ caller.thr[w].pc = "C555"
          /\ caller' = [caller EXCEPT !.thr[w].pc = "C556", !.frame[FrameOf(w)] = NewCKey]
    /\ UNCHANGED <<key, other, last>>

\* VerifyCompact, lines 556-557: key.SetCompactSignature(hash, vchSig)
PRecover ==
    /\ \E w \in Workers :
          /\ caller.thr[w].pc = "C556"
          /\ LET rec == SetCompactSignature(caller.frame[FrameOf(w)], caller.thr[w].hash,
                                            caller.thr[w].param)
             IN caller' = [caller EXCEPT
                             !.frame[FrameOf(w)] = rec.key,
                             !.thr[w].pc = IF rec.ret = "true" THEN "C558" ELSE "done",
                             !.thr[w].ret = IF rec.ret = "true" THEN "none" ELSE "false"]
    /\ UNCHANGED <<key, other, last>>

\* VerifyCompact, lines 558-561: GetPubKey() != key.GetPubKey()
PCompare ==
    /\ \E w \in Workers :
          /\ caller.thr[w].pc = "C558"
          /\ LET mine == GetPubKey(KeyOfWorker(w))
                 rec == GetPubKey(caller.frame[FrameOf(w)])
             IN SetThr(w, [caller.thr[w] EXCEPT
                             !.pc = "done",
                             !.ret = IF mine.ret = "throw" \/ rec.ret = "throw" THEN "throw"
                                     ELSE IF mine.bytes # rec.bytes THEN "false"
                                     ELSE "true"])
    /\ UNCHANGED <<key, other, last>>

\* the call of worker w returns to its caller
PReturn ==
    /\ \E w \in Workers :
          /\ caller.thr[w].pc = "done"
          /\ SetThr(w, ThreadIdle)
    /\ UNCHANGED <<key, other, last>>

NextPar ==
    \/ PStart
    \/ PCopy
    \/ PNormalize
    \/ PDecodeVerify
    \/ PLocalKey
    \/ PRecover
    \/ PCompare
    \/ PReturn

SpecPar == InitPar /\ [][NextPar]_vars

\* C20: Verify and VerifyCompact running at once on distinct CKey objects
\* share no mutable state: under every interleaving each call ends with the
\* verdict it has when run alone, and no key is changed.
C20_ParallelVerdicts ==
    /\ \A w \in Workers :
          caller.thr[w].pc = "done" =>
              IF caller.thr[w].op = "Verify"
              THEN caller.thr[w].ret
                     \in Verify(KeyOfWorker(w), caller.thr[w].hash, caller.thr[w].param)
              ELSE caller.thr[w].ret
                     = VerifyCompact(KeyOfWorker(w), caller.thr[w].hash, caller.thr[w].param)
    /\ key = last.key0
    /\ other = last.other0

\* two VerifyCompact calls on different keys have both ended, one with
\* true and one with false, each with its own recovered key in its frame
C20_Witness ==
    /\ caller.thr[1].pc = "done"
    /\ caller.thr[2].pc = "done"
    /\ caller.thr[1].op = "VerifyCompact"
    /\ caller.thr[1].ret = "true"
    /\ caller.thr[2].op = "VerifyCompact"
    /\ caller.thr[2].ret = "false"
    /\ key # other
    /\ caller.frame[1] # caller.frame[2]

\* ------------------------------------------------------------------------
\* Key recovery on chosen (r, s) (SpecRec)
\* ------------------------------------------------------------------------

\* values of r: zero, an abscissa of the curve whose sum with the order is
\* one too, a value that is no abscissa, one not below the order, and the r
\* of a signature
RecRs == {0, 6, 8, OrderN + 1, SigR(5)}

\* values of s: zero, one, one not below the order, and the s of a signature
\* of each hash
RecSs == {0, 1, OrderN + 1} \cup {SigS(5, h, 77) : h \in SignHashes}

\* key.SetCompactSignature(hash, vchSig) on 65 bytes carrying (r, s)
ESetCompact ==
    /\ last.op = "none"
    /\ \E hdr \in 27..34, r \in RecRs, s \in RecSs :
          LET res == SetCompactSignature(key, caller.hash, CompactOf(hdr, r, s))
          IN /\ key' = res.key
             /\ last' = Call("SetCompactSignature", res.ret, key, <<r, s, hdr>>, res.call)
    /\ UNCHANGED <<other, caller>>

\* ECDSA_SIG_recover_key_GFp(key.pkey, (r, s), hash, 32, recid, check) on the
\* EC_KEY of a new key or of one a recovery was run on
ERecoverKey ==
    /\ last.op # "ECDSA_SIG_recover_key_GFp"
    /\ \E recid \in 0..3, check \in BOOLEAN, r \in RecRs, s \in RecSs :
          LET rec == ECDSA_SIG_recover_key_GFp(key.pkey, r, s, caller.hash, recid, check)
          IN /\ key' = [key EXCEPT !.pkey = rec.pkey]
             /\ last' = Call("ECDSA_SIG_recover_key_GFp", rec.ret, key,
                             <<r, s, recid, check>>, <<>>)
    /\ UNCHANGED <<other, caller>>

NextRec == ESetCompact \/ ERecoverKey

SpecRec == InitSign /\ [][NextRec]_vars

\* C21: whenever SetCompactSignature(hash, sig) returns true, the (r, s) in
\* sig is a valid ECDSA signature of hash under the recovered public key and
\* the recovered key is a valid point, for every 65-byte input, r or s zero
\* or not below the order included.
C21_RecoveredKeyVerifies ==
    (last.op = "SetCompactSignature" /\ last.ret = "true") =>
        /\ DoVerify(key.pkey, caller.hash, last.arg[1], last.arg[2]) = 1
        /\ EC_KEY_check_key(key.pkey)

\* C25: ECDSA_SIG_recover_key_GFp returns 0 and leaves the public key alone
\* when x = r + (recid div 2) * n is not below p, when no point has
\* abscissa x and parity recid mod 2, or (check set) when n * R is not the
\* point at infinity; the public key is set only when it returns 1; and the
\* outcome is the one the same (hash, r, s, recid, check) give on a new key.
C25_RecoverFrame ==
    last.op = "ECDSA_SIG_recover_key_GFp" =>
        LET r == last.arg[1]
            recid == last.arg[3]
            check == last.arg[4]
            x == r + (recid \div 2) * OrderN
            R == Decompress(x, recid % 2)
            alone == ECDSA_SIG_recover_key_GFp(FreshECKey, r, last.arg[2], caller.hash,
                                               recid, check)
        IN /\ (x >= FieldP \/ ~R.ok \/ (check /\ ~PointMul(OrderN, R.pt).inf))
                 => (last.ret = 0 /\ key.pkey.pub = last.pre.pkey.pub)
           /\ last.ret # 1 => key.pkey.pub = last.pre.pkey.pub
           /\ [key.pkey EXCEPT !.pub = last.pre.pkey.pub] = last.pre.pkey
           /\ last.ret = alone.ret
           /\ last.ret = 1 => key.pkey.pub = alone.pkey.pub

\* a key holding a recovered point went through a recovery that ended with
\* -1 (r is zero modulo the order, the abscissa r + n is on the curve) and
\* kept its point
C25_Witness ==
    /\ last.op = "ECDSA_SIG_recover_key_GFp"
    /\ last.pre.pkey.pub # NoPoint
    /\ last.arg[1] = 0
    /\ last.arg[3] \in {2, 3}
    /\ last.ret = -1
    /\ key.pkey.pub = last.pre.pkey.pub

\* ------------------------------------------------------------------------
\* CKey::Verify step by step (SpecVer)
\* ------------------------------------------------------------------------

\* the keys Verify is called on: no public key, the signer's point imported,
\* the signer's key pair
VerKeys ==
    {NewCKey,
     SetPubKey(NewCKey, PointToOct(GMul(GenScalarList[1]), ConvCompressed)).key,
     MakeNewKey(NewCKey, GenScalarList[1], FALSE)}

\* an encoding that normalises and that the strict decoder turns away: r is
\* 00 05, a zero byte too many
PaddedIntSig == <<48, 7, 2, 2, 0, 5, 2, 1, 1>>

\* the signatures handed to Verify: a real one, a forged one, re-encodings
\* with long length fields, trailing bytes, declared lengths past the end,
\* a padded integer with short and with long length fields, an integer of
\* 128 bytes, and strings that are no SEQUENCE
VerInputs ==
    {SampleSig,
     DerEncodeSig(BNToBin(SigR(5)), BNToBin(SigS(5, DerHash, GenScalarList[2]))),
     Reencode(SampleSig, 2, 1, 0, TRUE), Reencode(SampleSig, 0, 8, 8, FALSE),
     SampleSig \o <<0>>, [SampleSig EXCEPT ![7] = 2], <<48, 2, 2, 5>>,
     PaddedIntSig, Reencode(PaddedIntSig, 1, 0, 3, TRUE),
     LongIntSig, <<>>, <<48>>, <<2, 1, 1>>}

\* the frame of a Verify call that has not started
VerIdle == [pc |-> "idle", hash |-> DerHash, vchSigParam |-> <<>>, vchSig |-> <<>>,
            steps |-> <<>>, norm_sig |-> DerDecodeSig(<<>>), norm_der |-> <<>>,
            ret |-> "none"]

InitVer ==
    /\ key \in VerKeys
    /\ other = NewCKey
    /\ caller = VerIdle
    /\ last = [given |-> <<>>]

\* the frame with step done, its result res, recorded
Stepped(step, res) == [caller EXCEPT !.steps = Append(@, [step |-> step, res |-> res])]

\* the caller calls key.Verify(hash, vchSigParam) on its vector
VStart ==
    /\ caller.pc = "idle"
    /\ \E sig \in VerInputs :
          /\ caller' = [VerIdle EXCEPT !.pc = "V518", !.vchSigParam = sig]
          /\ last' = [given |-> sig]
    /\ UNCHANGED <<key, other>>

\* line 518: the local vector, a copy of the parameter
VCopy ==
    /\ caller.pc = "V518"
    /\ caller' = [caller EXCEPT !.pc = "V520", !.vchSig = caller.vchSigParam]
    /\ UNCHANGED <<key, other, last>>

\* lines 520-521: NormalizeSignature(vchSig) on the local vector
VNormalize ==
    /\ caller.pc = "V520"
    /\ \E n \in NormalizeSignature(caller.vchSig) :
          caller' = IF n.ret = "true"
                    THEN [Stepped("NormalizeSignature", n.ret) EXCEPT
                            !.pc = "V523", !.vchSig = n.sig]
                    ELSE [Stepped("NormalizeSignature", n.ret) EXCEPT
                            !.pc = "done", !.ret = n.ret]
    /\ UNCHANGED <<key, other, last>>

\* lines 523-541: the test for an empty vector, then d2i_ECDSA_SIG
VDecode ==
    /\ caller.pc = "V523"
    /\ caller' =
          IF Len(caller.vchSig) = 0 THEN [caller EXCEPT !.pc = "done", !.ret = "false"]
          ELSE LET d == DerDecodeSig(caller.vchSig)
               IN IF D2iFailed(d)
                  THEN [Stepped("d2i_ECDSA_SIG", "false") EXCEPT
                          !.pc = "done", !.ret = "false"]
                  ELSE [Stepped("d2i_ECDSA_SIG", IF d.ok THEN "true" ELSE "false") EXCEPT
                          !.pc = "V543", !.norm_sig = d]
    /\ UNCHANGED <<key, other, last>>

\* lines 543-546: i2d_ECDSA_SIG and the test of derlen
VEncode ==
    /\ caller.pc = "V543"
    /\ LET der == DerEncodeSig(caller.norm_sig.r, caller.norm_sig.s)
       IN caller' =
            IF Len(der) <= 0
            THEN [Stepped("i2d_ECDSA_SIG", "false") EXCEPT !.pc = "done", !.ret = "false"]
            ELSE [Stepped("i2d_ECDSA_SIG", "true") EXCEPT !.pc = "V549", !.norm_der = der]
    /\ UNCHANGED <<key, other, last>>

\* lines 549-551: ECDSA_verify on the re-encoded bytes
VEcdsaVerify ==
    /\ caller.pc = "V549"
    /\ LET res == IF EcdsaVerify(key.pkey, caller.hash, caller.norm_der) = 1
                  THEN "true" ELSE "false"
       IN caller' = [Stepped("ECDSA_verify", res) EXCEPT !.pc = "done", !.ret = res]
    /\ UNCHANGED <<key, other, last>>

\* the call is over; the caller may call again
VReturn ==
    /\ caller.pc = "done"
    /\ caller' = VerIdle
    /\ UNCHANGED <<key, other, last>>

NextVer ==
    \/ VStart
    \/ VCopy
    \/ VNormalize
    \/ VDecode
    \/ VEncode
    \/ VEcdsaVerify
    \/ VReturn

SpecVer == InitVer /\ [][NextVer]_vars

\* the order the claim gives to the steps of Verify
VerifyOrder == <<"NormalizeSignature", "d2i_ECDSA_SIG", "i2d_ECDSA_SIG", "ECDSA_verify">>

\* C24: in Verify the steps come in a fixed order: NormalizeSignature, the
\* strict decode of the normalised bytes, the re-encode, and only then
\* ECDSA_verify on the re-encoded bytes; when an earlier step fails Verify
\* returns false and ECDSA_verify is never called; the caller's signature
\* bytes are never modified.
C24_VerifyStepOrder ==
    caller.pc # "idle" =>
        /\ Len(caller.steps) <= Len(VerifyOrder)
        /\ \A i \in 1..Len(caller.steps) :
              /\ caller.steps[i].step = VerifyOrder[i]
              /\ i > 1 => caller.steps[i - 1].res = "true"
        /\ (/\ Len(caller.steps) = Len(VerifyOrder)
            /\ caller.pc = "done")
              => /\ caller.norm_der = DerEncodeSig(caller.norm_sig.r, caller.norm_sig.s)
                 /\ caller.norm_sig = DerDecodeSig(caller.vchSig)
        /\ (/\ caller.pc = "done"
            /\ \E i \in 1..Len(caller.steps) :
                  caller.steps[i].res = "false" /\ i < Len(VerifyOrder))
              => /\ caller.ret = "false"
                 /\ \A i \in 1..Len(caller.steps) : caller.steps[i].step # "ECDSA_verify"
        /\ caller.pc = "done" => caller.ret \in Verify(key, caller.hash, last.given)
        /\ caller.vchSigParam = last.given

\* a call ended with false at the strict decode, after NormalizeSignature
\* rewrote the local copy; the caller's bytes are as they were
C24_Witness ==
    /\ caller.pc = "done"
    /\ Len(caller.steps) = 2
    /\ caller.steps[2].res = "false"
    /\ caller.ret = "false"
    /\ caller.vchSig # caller.vchSigParam
    /\ caller.vchSigParam = last.given

\* ------------------------------------------------------------------------
\* Checkpoints::CheckHardened (SpecCkpt): caller holds the settings of the
\* process, fTestNet and the arguments given on the command line
\* ------------------------------------------------------------------------

\* the hardened checkpoints of the main network, by height; the genesis
\* hashes are constants of another file and stand as their names
mapCheckpoints ==
    (0 :> "hashGenesisBlockOfficial") @@
    (1999 :> "00000000221617cf173f4b7b972eb818cce4bebccf655df9b8045a1693614700") @@
    (9999 :> "000000000068f65edd06adea78ba75ce1325c1316dc31c3c3e8a82c5a2f06bf2") @@
    (19999 :> "985a40a8d509121d8f633e0e05e0091435d4db549d7558915c7a8a4773130ff4") @@
    (37090 :> "3a185dbcff5271d9b75b12086c064e9596db26d96503ff84439f24e720807bb1") @@
    (69999 :> "00000000059b68241f8482737003cd6672298dc58e48ee961f577551b74b1604") @@
    (109999 :> "ba31c8b1aca84143858c4afd1ce59d9c3e327f69d272eb1bf87fe8a5a61449f6") @@
    (220000 :> "000000003d1f4b82ee64d28f9b05a310f374a948ba5dd81b939e1af030c17941") @@
    (260000 :> "979d5173ad642aa0f8166c9a3c2b351de0e7ec381f2465659de31287e0fb5ad7") @@
    (300000 :> "0000000085d96ac62f6208a3520ced06102cef49a607a2550cd4126e82091a00") @@
    (350000 :> "000000005f2959514e33e69d8a879ddb82b0f860f0f2bba5dd4cc4c9115b20c4") @@
    (380000 :> "000000001eafd4b5d92620f4413487c021889ed1749718373a5bd5c4fb65c798") @@
    (400000 :> "846c39d7ae5b9f9e7c1564f75fe8ef9565cd7fee4f4791a7a599c3a4f09fc6fc") @@
    (450000 :> "d9b19fa6d10cf25ec5f1e2dde5561feb290b109d80f63fed0ca7adb8ba336443") @@
    (480330 :> "0000000041ae89a6138179e395d4fe4e5658a3bdfe718fdb44d6253d1229b36e") @@
    (1420000 :> "10ba37fdea42b74a9b298fb8ab91bffa1682098e94ddfe111c322f0dbdab1192") @@
    (1425000 :> "0000000011afc5f7f482d4b417acaff71d7cf7f7364d9edb4d1e2e3452dc4a5f") @@
    (1430000 :> "92f609d8b0f5707c6beb52009102b8fb47e7c26ff23bba47eb1fd7a6ee003279") @@
    (1435000 :> "0000000054e4cf2932873ba68ff9b4a947b10fcf9a21f18bffa5d8db76adc32b") @@
    (1440000 :> "4bb183ac42416587b899cb14a9b3f1aec355122dec72ae8efa3a7a7dafcc70bc") @@
    (1445000 :> "000000002874893a11f86d1dbd1116f81cd8731d221ba7057e82df1d17438992") @@
    (1446000 :> "96c7a8f1ed054d8c9d1e39bb185384bdba809c2ff597f20a29811aa5016e725a") @@
    (1446770 :> "f59259dfa788d2b4c494d375e6df345b0fa614b3356146041d1be724035da853") @@
    (1447500 :> "28eb77df0c3c6620a39d881fcab9bb75276db881c0317ede9ac1661f52a4ebef") @@
    (1448292 :> "000000003785a399f039e6087d48572690c07d995ec0ce6c17c374a90a3df279")

\* the hardened checkpoints of the test network
mapCheckpointsTestnet == (0 :> "hashGenesisBlockTestNet")

\* a table of the main network whichever network is active
CheckpointsMainOnly(fTestNet) == mapCheckpoints

\* Checkpoints(): the checkpoint map of the active network
Checkpoints(fTestNet) == IF fTestNet THEN mapCheckpointsTestnet ELSE mapCheckpoints

\* atoi on a string of decimal digits, given as the digits
RECURSIVE Atoi(_)
Atoi(str) == IF Len(str) = 0 THEN 0 ELSE Atoi(SubSeq(str, 1, Len(str) - 1)) * 10 + str[Len(str)]

\* GetBoolArg(strArg, fDefault): the default when the argument was not
\* given, true when it was given without a value, else whether its value
\* is a non-zero number
GetBoolArg(mapArgs, strArg, fDefault) ==
    IF strArg \notin DOMAIN mapArgs THEN fDefault
    ELSE IF Len(mapArgs[strArg]) = 0 THEN TRUE
    ELSE Atoi(mapArgs[strArg]) # 0

\* Checkpoints::CheckHardened(nHeight, hash)
CheckHardened(mapArgs, fTestNet, nHeight, hash) ==
    IF ~GetBoolArg(mapArgs, "-checkpoints", TRUE) THEN TRUE
    ELSE LET checkpoints == Checkpoints(fTestNet)
         IN IF nHeight \notin DOMAIN checkpoints THEN TRUE
            ELSE hash = checkpoints[nHeight]

\* the command lines: -checkpoints not given, given bare, =1, =0, =10
CkptArgs ==
    {<<>>} \cup {("-checkpoints" :> v) : v \in {<<>>, <<1>>, <<0>>, <<1, 0>>}}

\* heights asked about: checkpoints of both networks, of the main network
\* only, their neighbours, and a negative height
CkptHeights == {-1, 0, 1, 1999, 2000, 1448292, 1448293}

\* hashes asked about: those of four checkpoints and one of no checkpoint
CkptHashes ==
    {mapCheckpoints[0], mapCheckpointsTestnet[0], mapCheckpoints[1999],
     mapCheckpoints[1448292], "00"}

InitCkpt ==
    /\ key = NewCKey
    /\ other = NewCKey
    /\ caller \in {[fTestNet |-> t, mapArgs |-> a] : t \in BOOLEAN, a \in CkptArgs}
    /\ last = NoCall

\* a block at nHeight with the given hash is checked
HCheckHardened ==
    /\ \E nHeight \in CkptHeights, hash \in CkptHashes :
          last' = Call("CheckHardened",
                       CheckHardened(caller.mapArgs, caller.fTestNet, nHeight, hash),
                       key, <<nHeight, hash>>, <<>>)
    /\ UNCHANGED <<key, other, caller>>

NextCkpt == HCheckHardened

SpecCkpt == InitCkpt /\ [][NextCkpt]_vars

\* C27: CheckHardened(height, hash) returns false if and only if
\* checkpoints are enabled and the map of the active network (testnet or
\* mainnet) has an entry at that height whose hash differs from hash; with
\* checkpoints disabled, or at a height without a checkpoint, it returns
\* true for every hash.
C27_CheckHardenedVerdict ==
    last.op = "CheckHardened" =>
        LET enabled == \/ "-checkpoints" \notin DOMAIN caller.mapArgs
                       \/ caller.mapArgs["-checkpoints"] \in {<<>>, <<1>>, <<1, 0>>}
            active == IF caller.fTestNet THEN mapCheckpointsTestnet ELSE mapCheckpoints
            nHeight == last.arg[1]
        IN last.ret = FALSE <=>
              (/\ enabled
               /\ nHeight \in DOMAIN active
               /\ active[nHeight] # last.arg[2])

\* on the test network, with checkpoints enabled, a block at a height that
\* only the main network has a checkpoint for passed with another hash
C27_Witness ==
    /\ last.op = "CheckHardened"
    /\ caller.fTestNet
    /\ "-checkpoints" \notin DOMAIN caller.mapArgs
    /\ last.arg[1] \in DOMAIN mapCheckpoints
    /\ last.arg[1] \notin DOMAIN mapCheckpointsTestnet
    /\ last.arg[2] # mapCheckpoints[last.arg[1]]
    /\ last.ret = TRUE

\* ------------------------------------------------------------------------
\* SpecInit: AppInit2 loading the block index while a shutdown may be
\* requested (init.cpp).  caller is the frame of AppInit2, last holds the
\* globals fRequestShutdown and fReindex, whether a request was made during
\* the load, and the value AppInit2 returned.  The signal handler is
\* installed and StartShutdown can be called before the load begins, so
\* fRequestShutdown has either value when the loop is entered.
\* ------------------------------------------------------------------------

LoadOutcomes == {"ok", "LoadBlockIndex", "InitBlockIndex", "VerifyDB", "exception"}

\* program positions of AppInit2 at which the block index is being loaded
LoadingPcs == {"L738", "L746", "L784", "L802", "L808"}

\* program positions of AppInit2 after the test of fRequestShutdown that
\* follows the load
StartingPcs == {"L813", "L844", "L946", "L961", "L984"}

InitInit ==
    /\ key = NewCKey
    /\ other = NewCKey
    /\ caller \in {[pc |-> "L738", fLoaded |-> FALSE, fReset |-> FALSE,
                    strLoadError |-> "", strErrors |-> "", txindexChanged |-> t] :
                       t \in BOOLEAN}
    /\ last \in {[fRequestShutdown |-> q, fReindex |-> r, requested |-> "no",
                  cleared |-> FALSE, ThreadImport |-> "none", ret |-> "none"] :
                    q \in BOOLEAN, r \in BOOLEAN}

\* fRequestShutdown = true, remembering who asked first while the block
\* index was being loaded
Requested(g, by) ==
    [g EXCEPT !.fRequestShutdown = TRUE,
              !.requested = IF caller.pc \in LoadingPcs /\ @ = "no" THEN by ELSE @]

\* void StartShutdown() { fRequestShutdown = true; }
StartShutdown ==
    /\ caller.pc \in LoadingPcs \cup StartingPcs
    /\ last' = Requested(last, "StartShutdown")
    /\ UNCHANGED <<key, other, caller>>

\* void HandleSIGTERM(int) { fRequestShutdown = true; }
HandleSIGTERM ==
    /\ caller.pc \in LoadingPcs \cup StartingPcs
    /\ last' = Requested(last, "HandleSIGTERM")
    /\ UNCHANGED <<key, other, caller>>

\* while (!fLoaded) { bool fReset = fReindex; std::string strLoadError;
ALoopHead ==
    /\ caller.pc = "L738"
    /\ caller' = IF ~caller.fLoaded
                 THEN [caller EXCEPT !.pc = "L746", !.fReset = last.fReindex,
                                     !.strLoadError = ""]
                 ELSE [caller EXCEPT !.pc = "L802"]
    /\ UNCHANGED <<key, other, last>>

\* the do { try { ... } } while(false) block: one load attempt
ALoadAttempt ==
    /\ caller.pc = "L746"
    /\ \E outcome \in LoadOutcomes :
          caller' = [caller EXCEPT
                        !.pc = "L784",
                        !.fLoaded = (outcome = "ok"),
                        !.strLoadError =
                            CASE outcome = "ok" -> ""
                              [] outcome = "LoadBlockIndex" -> "Error loading block database"
                              [] outcome = "InitBlockIndex" -> "Error initializing block database"
                              [] outcome = "VerifyDB" -> "Corrupted block database detected"
                              [] OTHER -> "Error opening block database"]
    /\ UNCHANGED <<key, other, last>>

\* if (!fLoaded) { if (!fReset) { ask; fReindex = true; fRequestShutdown =
\* false } else return InitError }
AFailed ==
    /\ caller.pc = "L784"
    /\ IF caller.fLoaded
       THEN /\ caller' = [caller EXCEPT !.pc = "L738"]
            /\ UNCHANGED last
       ELSE IF ~caller.fReset
            THEN \E fRet \in BOOLEAN :
                    IF fRet
                    THEN /\ last' = [last EXCEPT !.fReindex = TRUE,
                                                 !.fRequestShutdown = FALSE,
                                                 !.cleared = last.fRequestShutdown]
                         /\ caller' = [caller EXCEPT !.pc = "L738"]
                    ELSE /\ last' = [last EXCEPT !.ret = FALSE]
                         /\ caller' = [caller EXCEPT !.pc = "returned"]
            ELSE /\ last' = [last EXCEPT !.ret = FALSE]
                 /\ caller' = [caller EXCEPT !.pc = "returned"]
    /\ UNCHANGED <<key, other>>

\* if (mapArgs.count("-txindex") && fTxIndex != GetBoolArg("-txindex", false))
ATxIndex ==
    /\ caller.pc = "L802"
    /\ IF caller.txindexChanged
       THEN /\ last' = [last EXCEPT !.ret = FALSE]
            /\ caller' = [caller EXCEPT !.pc = "returned"]
       ELSE /\ caller' = [caller EXCEPT !.pc = "L808"]
            /\ UNCHANGED last
    /\ UNCHANGED <<key, other>>

\* if (fRequestShutdown) { printf("Shutdown requested. Exiting.\n"); return false; }
AShutdownCheck ==
    /\ caller.pc = "L808"
    /\ IF last.fRequestShutdown
       THEN /\ last' = [last EXCEPT !.ret = FALSE]
            /\ caller' = [caller EXCEPT !.pc = "returned"]
       ELSE /\ caller' = [caller EXCEPT !.pc = "L813"]
            /\ UNCHANGED last
    /\ UNCHANGED <<key, other>>

\* AppInit2 returns false
ReturnFalse ==
    /\ last' = [last EXCEPT !.ret = FALSE]
    /\ caller' = [caller EXCEPT !.pc = "returned"]

\* lines 813-842: -printblockindex, -printblocktree and -printblock print
\* and return false
APrint ==
    /\ caller.pc = "L813"
    /\ \E arg \in {"none", "-printblocktree", "-printblock"} :
          IF arg = "none"
          THEN /\ caller' = [caller EXCEPT !.pc = "L844"]
               /\ UNCHANGED last
          ELSE ReturnFalse
    /\ UNCHANGED <<key, other>>

\* the values of DBErrors LoadWallet returns
DBErrors == {"DB_LOAD_OK", "DB_CORRUPT", "DB_NONCRITICAL_ERROR", "DB_TOO_NEW",
             "DB_LOAD_FAIL", "DB_NEED_REWRITE"}

\* what the test of nLoadWalletRet puts in strErrors (lines 865-884)
LoadWalletError(nLoadWalletRet) ==
    CASE nLoadWalletRet = "DB_CORRUPT" -> "Error loading wallet.dat: Wallet corrupted\n"
      [] nLoadWalletRet = "DB_TOO_NEW" ->
            "Error loading wallet.dat: Wallet requires newer version of Peercoin\n"
      [] nLoadWalletRet = "DB_NEED_REWRITE" ->
            "Wallet needed to be rewritten: restart Peercoin to complete\n"
      [] nLoadWalletRet = "DB_LOAD_FAIL" -> "Error loading wallet.dat\n"
      [] OTHER -> ""

\* step 8, load wallet (lines 844-944): a failing ZapWalletTx and
\* DB_NEED_REWRITE return false; the other load errors, a wallet newer than
\* -upgradewallet allows and a default address that cannot be written are
\* put in strErrors.  fZap is -zapwallettxes, upgradewallet what the
\* argument holds, fTooNew is nMaxVersion < pwalletMain->GetVersion(), fKey
\* is GetKeyFromPool and fBook is SetAddressBookName.
ALoadWallet ==
    /\ caller.pc = "L844"
    /\ \E fZap \in BOOLEAN, nZapWalletRet \in {"DB_LOAD_OK", "DB_CORRUPT"},
          nLoadWalletRet \in DBErrors, fFirstRun \in BOOLEAN,
          upgradewallet \in {"unset", "0", "1"}, fTooNew \in BOOLEAN,
          fKey \in BOOLEAN, fBook \in BOOLEAN :
          LET fUpgrade == IF upgradewallet = "unset" THEN fFirstRun
                          ELSE upgradewallet = "1"
              loaded == caller.strErrors \o LoadWalletError(nLoadWalletRet)
              upgraded == IF fUpgrade /\ fTooNew
                          THEN loaded \o "Cannot downgrade wallet\n" ELSE loaded
              first == IF fFirstRun /\ fKey /\ ~fBook
                       THEN upgraded \o "Cannot write default address\n" ELSE upgraded
          IN IF fZap /\ nZapWalletRet # "DB_LOAD_OK"
             THEN ReturnFalse
             ELSE IF nLoadWalletRet = "DB_NEED_REWRITE"
             THEN /\ last' = [last EXCEPT !.ret = FALSE]
                  /\ caller' = [caller EXCEPT !.pc = "returned", !.strErrors = loaded]
             ELSE /\ caller' = [caller EXCEPT !.pc = "L946", !.strErrors = first]
                  /\ UNCHANGED last
    /\ UNCHANGED <<key, other>>

\* step 9, import blocks: ConnectBestBlock, then
\* threadGroup.create_thread(boost::bind(&ThreadImport, vImportFiles))
AImport ==
    /\ caller.pc = "L946"
    /\ \E connected \in BOOLEAN :
          caller' = [caller EXCEPT
                        !.pc = "L961",
                        !.strErrors = IF connected THEN @
                                      ELSE @ \o "Failed to connect best block"]
    /\ last' = [last EXCEPT !.ThreadImport = "running"]
    /\ UNCHANGED <<key, other>>

\* the thread ThreadImport, beside AppInit2: if (fReindex) { ...; fReindex =
\* false; ... } and the imports
TImport ==
    /\ last.ThreadImport = "running"
    /\ last' = [last EXCEPT !.fReindex = FALSE, !.ThreadImport = "done"]
    /\ UNCHANGED <<key, other, caller>>

\* steps 10 and 11 up to line 982: load peers; if (!CheckDiskSpace()) return
\* false; if (!strErrors.str().empty()) return InitError(strErrors.str());
ACheckStart ==
    /\ caller.pc = "L961"
    /\ \E fDiskSpace \in BOOLEAN :
          IF ~fDiskSpace \/ caller.strErrors # ""
          THEN ReturnFalse
          ELSE /\ caller' = [caller EXCEPT !.pc = "L984"]
               /\ UNCHANGED last
    /\ UNCHANGED <<key, other>>

\* lines 984-1026: the node is started; return !fRequestShutdown;
AFinish ==
    /\ caller.pc = "L984"
    /\ last' = [last EXCEPT !.ret = ~last.fRequestShutdown]
    /\ caller' = [caller EXCEPT !.pc = "started"]
    /\ UNCHANGED <<key, other>>

NextInit ==
    \/ StartShutdown \/ HandleSIGTERM \/ ALoopHead \/ ALoadAttempt \/ AFailed
    \/ ATxIndex \/ AShutdownCheck \/ APrint \/ ALoadWallet \/ AImport \/ TImport
    \/ ACheckStart \/ AFinish

SpecInit == InitInit /\ [][NextInit]_vars

\* C28: a shutdown requested at any moment while AppInit2 is loading the
\* block index, a failed load attempt that is retried as a reindex
\* included, is not lost: AppInit2 does not go on to start the node and
\* returns false.
C28_RequestNotLost ==
    last.requested # "no" =>
        /\ caller.pc \notin StartingPcs \cup {"started"}
        /\ caller.pc = "returned" => last.ret = FALSE

\* ------------------------------------------------------------------------
\* SpecShut: threads calling Shutdown() (init.cpp).  caller maps each thread
\* to its position in Shutdown and the number of calls it has completed;
\* last holds the static cs_Shutdown, the four global pointers, and what
\* the cleanup body has done so far.
\* ------------------------------------------------------------------------

NumShutdownThreads == 2

MaxShutdownCalls == 2

ShutdownThreads == 1..NumShutdownThreads

\* a pointer is NULL, points to a live object, or still holds the address of
\* an object that was deleted
PointerStates == {"null", "live", "deleted"}

\* delete p: nothing for NULL, frees a live object and leaves the address in
\* p, and is a double free for an address already deleted
Delete(p) == IF p = "live" THEN "deleted" ELSE p

\* the statements of a load attempt of AppInit2 that end before any, after
\* one, two or all three of the objects are constructed
AttemptStops == 0..3

\* pcoinsTip, pcoinsdbview and pblocktree after a load attempt of AppInit2
\* (lines 749-755) that found them as p: the three are deleted and not
\* reset, then pblocktree, pcoinsdbview and pcoinsTip are assigned new
\* objects in that order; built is how many were constructed before a
\* constructor threw
LoadAttemptPointers(p, built) ==
    [pcoinsTip |-> IF built >= 3 THEN "live" ELSE Delete(p.pcoinsTip),
     pcoinsdbview |-> IF built >= 2 THEN "live" ELSE Delete(p.pcoinsdbview),
     pblocktree |-> IF built >= 1 THEN "live" ELSE Delete(p.pblocktree)]

\* the three pointers when Shutdown is first called: as the program starts
\* with them, after one load attempt, or after a failed attempt and the
\* attempt that follows it
DatabasePointers ==
    LET none == [pcoinsTip |-> "null", pcoinsdbview |-> "null", pblocktree |-> "null"]
        once == {LoadAttemptPointers(none, n) : n \in AttemptStops}
        twice == {LoadAttemptPointers(p, n) : p \in once, n \in AttemptStops}
    IN {none} \cup once \cup twice

\* pwalletMain is NULL until step 8 of AppInit2 and points to the wallet
\* from then on
InitShut ==
    /\ key = NewCKey
    /\ other = NewCKey
    /\ caller = [t \in ShutdownThreads |-> [pc |-> "idle", calls |-> 0]]
    /\ last \in {[cs_Shutdown |-> 0, pwalletMain |-> w, pcoinsTip |-> p.pcoinsTip,
                  pcoinsdbview |-> p.pcoinsdbview, pblocktree |-> p.pblocktree,
                  nBodyRuns |-> 0, fault |-> "none", crashed |-> FALSE] :
                    w \in {"null", "live"}, p \in DatabasePointers}

\* printf; static CCriticalSection cs_Shutdown; TRY_LOCK(cs_Shutdown,
\* lockShutdown); if (!lockShutdown) return;
SEnter(t) ==
    /\ ~last.crashed
    /\ caller[t].pc = "idle"
    /\ caller[t].calls < MaxShutdownCalls
    /\ IF last.cs_Shutdown = 0
       THEN /\ last' = [last EXCEPT !.cs_Shutdown = t, !.nBodyRuns = @ + 1]
            /\ caller' = [caller EXCEPT ![t].pc = "L105"]
       ELSE /\ caller' = [caller EXCEPT ![t].calls = @ + 1]
            /\ UNCHANGED last
    /\ UNCHANGED <<key, other>>

\* what lines 113-121 do to objects that are gone: pwalletMain, pblocktree
\* and pcoinsTip are tested against NULL only and used, and the three
\* database pointers are deleted
FlushMisuse(g) ==
    IF "deleted" \in {g.pwalletMain, g.pblocktree, g.pcoinsTip}
    THEN "flush after delete"
    ELSE IF g.pcoinsdbview = "deleted" THEN "double delete"
    ELSE "none"

\* the first misuse of a deleted object stays on record
Record(g, misuse) == [g EXCEPT !.fault = IF @ = "none" THEN misuse ELSE @]

\* the outcomes of a step that misuses a deleted object: the process dies
\* there, or the step goes on as if the object were there
MisuseOutcomes(misuse) == IF misuse = "none" THEN {"continue"} ELSE {"fault", "continue"}

\* RenameThread ... StopNode(); { LOCK(cs_main); SetBestChain, Flush,
\* delete pcoinsTip; pcoinsTip = NULL; ... }
SFlush(t) ==
    /\ ~last.crashed
    /\ caller[t].pc = "L105"
    /\ \E outcome \in MisuseOutcomes(FlushMisuse(last)) :
          IF outcome = "fault"
          THEN /\ last' = [Record(last, FlushMisuse(last)) EXCEPT !.crashed = TRUE]
               /\ caller' = [caller EXCEPT ![t].pc = "crashed"]
          ELSE /\ last' = [Record(last, FlushMisuse(last)) EXCEPT
                              !.pcoinsTip = "null", !.pcoinsdbview = "null",
                              !.pblocktree = "null"]
               /\ caller' = [caller EXCEPT ![t].pc = "L122"]
    /\ UNCHANGED <<key, other>>

\* delete pwalletMain, which leaves the pointer as it is
DeleteMisuse(g) == IF g.pwalletMain = "deleted" THEN "double delete" ELSE "none"

\* bitdb.Flush(true); remove(GetPidFile()); UnregisterWallet(pwalletMain);
\* delete pwalletMain; printf; the lock is released on return
SDeleteWallet(t) ==
    /\ ~last.crashed
    /\ caller[t].pc = "L122"
    /\ \E outcome \in MisuseOutcomes(DeleteMisuse(last)) :
          IF outcome = "fault"
          THEN /\ last' = [Record(last, DeleteMisuse(last)) EXCEPT !.crashed = TRUE]
               /\ caller' = [caller EXCEPT ![t].pc = "crashed"]
          ELSE /\ last' = [Record(last, DeleteMisuse(last)) EXCEPT
                              !.pwalletMain = Delete(@), !.cs_Shutdown = 0]
               /\ caller' = [caller EXCEPT ![t].pc = "idle", ![t].calls = @ + 1]
    /\ UNCHANGED <<key, other>>

NextShut == \E t \in ShutdownThreads : SEnter(t) \/ SFlush(t) \/ SDeleteWallet(t)

SpecShut == InitShut /\ [][NextShut]_vars

\* C29: for any number of calls to Shutdown(), concurrent or one after
\* another, the cleanup body runs at most once per process, so that no
\* object is flushed after its deletion or deleted twice.
C29_BodyAtMostOnce ==
    /\ last.nBodyRuns <= 1
    /\ last.fault = "none"

\* ------------------------------------------------------------------------
\* SpecImp: ThreadImport and its CImportingNow guards (init.cpp).  caller
\* is the frame of ThreadImport (position, the files it was given and the
\* loop counters), last holds the globals fImporting and fReindex and
\* whether an assertion has failed.
\* ------------------------------------------------------------------------

MaxBlockFiles == 2

MaxImportFiles == 2

\* each -loadblock file either opens (TRUE) or does not (FALSE)
ImportFileLists ==
    UNION {[1..n -> BOOLEAN] : n \in 0..MaxImportFiles}

BootstrapStates == {"absent", "unreadable", "present"}

\* positions of ThreadImport inside the scope of a CImportingNow
PhasePcs == {"L298", "L307", "L320", "L331"}

InitImp ==
    /\ key = NewCKey
    /\ other = NewCKey
    /\ caller \in {[pc |-> "L295", nBlockFiles |-> b, nFile |-> 0, bootstrap |-> s,
                    vImportFiles |-> v, i |-> 1, phases |-> 0] :
                       b \in 0..MaxBlockFiles, s \in BootstrapStates,
                       v \in ImportFileLists}
    /\ last \in {[fImporting |-> FALSE, fReindex |-> r, assertFailed |-> FALSE] :
                    r \in BOOLEAN}

\* CImportingNow() { assert(fImporting == false); fImporting = true; }
CImportingNow(g) ==
    [g EXCEPT !.assertFailed = @ \/ g.fImporting # FALSE, !.fImporting = TRUE]

\* a destructor that checks the flag and leaves it set
DtorKeepsFlag(g) ==
    [g EXCEPT !.assertFailed = @ \/ g.fImporting # TRUE]

\* ~CImportingNow() { assert(fImporting == true); fImporting = false; }
CImportingNowDtor(g) ==
    [g EXCEPT !.assertFailed = @ \/ g.fImporting # TRUE, !.fImporting = FALSE]

\* if (fReindex) { CImportingNow imp; int nFile = 0;
IReindexOpen ==
    /\ caller.pc = "L295"
    /\ ~last.assertFailed
    /\ IF last.fReindex
       THEN /\ last' = CImportingNow(last)
            /\ caller' = [caller EXCEPT !.pc = "L298", !.nFile = 0,
                                        !.phases = @ + 1]
       ELSE /\ caller' = [caller EXCEPT !.pc = "L314"]
            /\ UNCHANGED last
    /\ UNCHANGED <<key, other>>

\* while (true) { OpenBlockFile; if (!file) break; LoadExternalBlockFile;
\* nFile++; }
IReindexFile ==
    /\ caller.pc = "L298"
    /\ ~last.assertFailed
    /\ caller' = IF caller.nFile < caller.nBlockFiles
                 THEN [caller EXCEPT !.nFile = @ + 1]
                 ELSE [caller EXCEPT !.pc = "L307"]
    /\ UNCHANGED <<key, other, last>>

\* WriteReindexing(false); fReindex = false; InitBlockIndex(); } closes the
\* scope of imp
IReindexClose ==
    /\ caller.pc = "L307"
    /\ ~last.assertFailed
    /\ last' = CImportingNowDtor([last EXCEPT !.fReindex = FALSE])
    /\ caller' = [caller EXCEPT !.pc = "L314"]
    /\ UNCHANGED <<key, other>>

\* if (filesystem::exists(pathBootstrap)) { fopen; if (file) { CImportingNow
\* imp;
IBootstrapOpen ==
    /\ caller.pc = "L314"
    /\ ~last.assertFailed
    /\ IF caller.bootstrap = "present"
       THEN /\ last' = CImportingNow(last)
            /\ caller' = [caller EXCEPT !.pc = "L320", !.phases = @ + 1]
       ELSE /\ caller' = [caller EXCEPT !.pc = "L327"]
            /\ UNCHANGED last
    /\ UNCHANGED <<key, other>>

\* LoadExternalBlockFile(file); RenameOver(pathBootstrap, pathBootstrapOld); }
IBootstrapClose ==
    /\ caller.pc = "L320"
    /\ ~last.assertFailed
    /\ last' = CImportingNowDtor(last)
    /\ caller' = [caller EXCEPT !.pc = "L327"]
    /\ UNCHANGED <<key, other>>

\* BOOST_FOREACH(path, vImportFiles) { fopen; if (file) { CImportingNow imp;
IImportOpen ==
    /\ caller.pc = "L327"
    /\ ~last.assertFailed
    /\ IF caller.i > Len(caller.vImportFiles)
       THEN /\ caller' = [caller EXCEPT !.pc = "returned"]
            /\ UNCHANGED last
       ELSE IF caller.vImportFiles[caller.i]
            THEN /\ last' = CImportingNow(last)
                 /\ caller' = [caller EXCEPT !.pc = "L331", !.phases = @ + 1]
            ELSE /\ caller' = [caller EXCEPT !.i = @ + 1]
                 /\ UNCHANGED last
    /\ UNCHANGED <<key, other>>

\* LoadExternalBlockFile(file); } }
IImportClose ==
    /\ caller.pc = "L331"
    /\ ~last.assertFailed
    /\ last' = CImportingNowDtor(last)
    /\ caller' = [caller EXCEPT !.pc = "L327", !.i = @ + 1]
    /\ UNCHANGED <<key, other>>

NextImp ==
    \/ IReindexOpen \/ IReindexFile \/ IReindexClose \/ IBootstrapOpen
    \/ IBootstrapClose \/ IImportOpen \/ IImportClose

SpecImp == InitImp /\ [][NextImp]_vars

\* C30: no assertion of CImportingNow fails in ThreadImport: fImporting is
\* true exactly while ThreadImport is inside one import phase (so it is
\* false when a phase begins and false after ThreadImport has returned),
\* for every combination of fReindex, bootstrap.dat and import files.
C30_ImportingFlag ==
    /\ ~last.assertFailed
    /\ last.fImporting <=> caller.pc \in PhasePcs
    /\ caller.pc = "returned" => ~last.fImporting

\* ThreadImport has returned after running the reindex phase, the
\* bootstrap.dat phase and two -loadblock phases
C30_Witness ==
    /\ caller.pc = "returned"
    /\ caller.phases = 4
    /\ Len(caller.vImportFiles) = 2
    /\ ~last.fImporting
    /\ ~last.assertFailed

====
